---------------------------- MODULE Spec2Model ----------------------------
(***************************************************************************)
(* A model of the ministack planner (dolphin/stack.py) and of the          *)
(* sequential estimator (dolphin/sequential.py): its run over the files,   *)
(* and the rasters and blocks of one of its ministacks; of the read of a   *)
(* RasterStack (dolphin/_readers.py) and of create_ps (dolphin/ps.py),     *)
(* with calc_ps_block on one block of amplitudes; and of                    *)
(* estimate_neighbors (dolphin/shp) and of the metadata of a compressed     *)
(* SLC file.                                                               *)
(*                                                                         *)
(* Indices are 0-based as in the Python source; TLA+ sequences are         *)
(* 1-based, so the Python element s[i] is the TLA+ element s[i + 1].       *)
(* A datetime is a natural number of ticks, TicksPerDay ticks to the day;  *)
(* a formatted date (file_date_fmt, "YYYYMMDD") is the number of the day.  *)
(***************************************************************************)
EXTENDS Integers, Sequences, FiniteSets, TLC

\* ---------------------------------------------------------------- bounds
MaxFiles == 5       \* longest file list given to the planner
MaxSize == 3        \* largest ministack_size given to plan
MaxComp == 2        \* largest max_num_compressed of a planner
MaxManual == 2      \* longest list of manual reference indices
TicksPerDay == 2    \* resolution of the time of day of a datetime
MaxSeqFiles == 3    \* longest stack given to the sequential estimator
MaxSeqSize == 3     \* largest ministack_size given to the sequential estimator
NumTiles == 2       \* tiles the block generator lays over the scene
MaxDim == 3         \* most rows, and most columns, of a scene
MaxStride == 2      \* largest stride along an axis
MaxHalf == 1        \* largest half window along an axis
MaxBlock == 2       \* most rows, and most columns, of a block
MaxBlocks == 4      \* most blocks laid over a scene
MaxPrior == 1       \* most compressed SLCs at the start of a ministack's stack
MaxReal == 2        \* most real SLCs of a ministack's stack
MaxBands == 3       \* most files of a RasterStack
MaxThreads == 2     \* largest num_threads of a RasterStack
MaxPixels == 2      \* most pixels of a block of amplitudes
MaxDepth == 2       \* deepest stack of amplitudes
MaxSamples == 4     \* most samples of a block of amplitudes
MaxShpDim == 2      \* most rows, and most columns, of the mean and var arrays
MaxMeta == 2        \* the descriptors a file's metadata can hold
MaxCalls == 2       \* most calls made on the metadata of a file
MaxTileStop == 5    \* largest end of a tile along an axis
MaxTileStride == 3  \* largest stride of a tile along an axis

\* The end-to-end scenario of the specification: 25 real acquisitions,
\* ministack_size 10, max_num_compressed 5, no manual index.
Scenario == [files |-> 25, ministack_size |-> 10, max_num_compressed |-> 5]

\* ----------------------------------------------------- Python list helpers
Min(a, b) == IF a < b THEN a ELSE b
Max(a, b) == IF a > b THEN a ELSE b

\* s[a:b + 1]: a window that takes one entry too many
Slice_inclusive(s, a, b) == SubSeq(s, a + 1, Min(b + 1, Len(s)))

\* s[a:b] for 0 <= a and 0 <= b
Slice(s, a, b) == SubSeq(s, a + 1, Min(b, Len(s)))

\* s[-n:] for n >= 0; in Python -0 is 0, so s[-0:] is the whole list
LastN(s, n) == IF n = 0 THEN s ELSE SubSeq(s, Max(1, Len(s) - n + 1), Len(s))

\* s[i] for an integer i: negative indices count from the end
PyIndexOk(s, i) == -Len(s) <= i /\ i < Len(s)
PyIndex(s, i) == IF i >= 0 THEN s[i + 1] ELSE s[Len(s) + i + 1]

RECURSIVE Insert(_, _)
Insert(x, s) ==
    IF s = <<>> THEN <<x>>
    ELSE IF x <= Head(s) THEN <<x>> \o s
    ELSE <<Head(s)>> \o Insert(x, Tail(s))

RECURSIVE Sorted(_)
\* sorted(s): ascending, duplicates kept
Sorted(s) == IF s = <<>> THEN <<>> ELSE Insert(Head(s), Sorted(Tail(s)))

RECURSIVE SelectIdx(_, _)
\* np.where(flags)[0]: the 0-based indices of the true entries, ascending
SelectIdx(flags, from) ==
    IF from > Len(flags) THEN <<>>
    ELSE (IF flags[from] THEN <<from - 1>> ELSE <<>>) \o SelectIdx(flags, from + 1)

Where(flags) == SelectIdx(flags, 1)

BoolSeqs(k) == UNION {[1..m -> BOOLEAN] : m \in 0..k}

\* ------------------------------------------------------------ dates, files
\* format_dates with the default format keeps the day and drops the time
FormatDate(dt) == dt \div TicksPerDay
\* get_dates parses a formatted date to the datetime at midnight of that day
ParseDate(day) == day * TicksPerDay

FormatDates(ds) == [i \in 1..Len(ds) |-> FormatDate(ds[i])]

\* The acquisition at 0-based position i of the input list: day i + 1, at a
\* time of day that differs between neighbouring acquisitions.
AcquisitionDate(i) == (i + 1) * TicksPerDay + (i % TicksPerDay)

\* A file is its folder (the date strings of the path below the planner's
\* output folder), its kind and the date strings of its name.
SlcFile(i) ==
    [folder |-> <<>>, kind |-> "slc", name |-> <<FormatDate(AcquisitionDate(i))>>]
\* A compressed file handed to the planner: compressed_<ref>_<start>_<end>.tif
ExistingCompressedFile(i) ==
    [folder |-> <<>>, kind |-> "compressed", name |-> <<i + 1, i + 1, i + 1>>]

InputFile(i, flags) ==
    IF i < Len(flags) /\ flags[i + 1] THEN ExistingCompressedFile(i) ELSE SlcFile(i)

\* The dates the caller passes for a file: the three dates parsed from a
\* compressed file's name, the one acquisition datetime of a real SLC.
InputDates(i, flags) ==
    IF i < Len(flags) /\ flags[i + 1]
    THEN [j \in 1..3 |-> ParseDate(ExistingCompressedFile(i).name[j])]
    ELSE <<AcquisitionDate(i)>>

\* --------------------------------------------------------------- variables
VARIABLES
    pc,                   \* position of the caller / of plan
    err,                  \* the exception raised, "none" if none
    file_list,            \* BaseStack.file_list
    dates,                \* BaseStack.dates
    is_compressed,        \* BaseStack.is_compressed
    max_num_compressed,   \* MiniStackPlanner.max_num_compressed
    ministack_size,       \* argument of plan
    manual_idxs,          \* argument of plan: the caller's sequence
    manual_idx_list,      \* local of plan
    compressed_slc_infos, \* local of plan: the lineage
    full_stack_idx,       \* loop variable of plan
    output_ministacks,    \* local of plan
    result,               \* what plan returned to the caller
    prev_result,          \* what the previous call of plan returned
    calls,                \* number of calls of plan, finished ones included
    windows,              \* history: the window and the override of each ministack
    inputs0               \* history: the planner's fields and the caller's
                          \* manual indices as they were when plan was first called

planVars == <<pc, err, file_list, dates, is_compressed, max_num_compressed,
              ministack_size, manual_idxs, manual_idx_list, compressed_slc_infos,
              full_stack_idx, output_ministacks, result, prev_result, calls,
              windows, inputs0>>

\* The state of one run of run_evd_sequential
VARIABLES
    evd_pc,                  \* position in run_evd_sequential
    file_list_all,           \* the files of the input stack, oldest first
    evd_ministack_size,      \* argument ministack_size
    evd_full_stack_idx,      \* loop variable full_stack_idx
    mini_idx,                \* loop variable mini_idx
    comp_slc_files,          \* the compressed SLC of each ministack so far
    tcorr_files,             \* the temporal coherence raster of each ministack
    output_slc_files,        \* mini_idx -> the phase-linked files of the ministack
    adjusted_comp_slc_files, \* the adjustment rasters of the reconcile pass
    pending,                 \* the tiles block_gen has still to yield
    fs,                      \* the rasters on disk: path -> the tiles written
    calc_inputs,             \* path of a gdal_calc output -> its inputs A and B
    folders,                 \* the folders made so far
    kernel_calls,            \* history: the calls of run_mle
    saved,                   \* history: the (file, tile) pairs of io.save_block
    retval                   \* what run_evd_sequential returned

evdVars == <<evd_pc, file_list_all, evd_ministack_size, evd_full_stack_idx,
             mini_idx, comp_slc_files, tcorr_files, output_slc_files,
             adjusted_comp_slc_files, pending, fs, calc_inputs, folders,
             kernel_calls, saved, retval>>

\* The rasters and the blocks of one ministack of run_evd_sequential
VARIABLES
    blk_pc,        \* position in the body of the loop over the ministacks
    ysize, xsize,  \* rows and columns of the scene, v_all.shape[-2:]
    ys, xs,        \* strides["y"], strides["x"]
    yhalf, xhalf,  \* half_window["y"], half_window["x"]
    block_shape,   \* rows and columns of a block, what max_bytes allows
    num_comp,      \* the compressed SLCs at the start of cur_vrt (mini_idx)
    num_real,      \* the real SLCs of cur_vrt, len(cur_output_files)
    out_shape,     \* local out_shape
    raster_shape,  \* the empty rasters made: destination -> (rows, columns)
    block_gen,     \* the blocks block_gen has still to yield
    blocks_done,   \* history: the blocks yielded, and what became of each
    writes         \* history: the calls of io.save_block that stored a block

blkVars == <<blk_pc, ysize, xsize, ys, xs, yhalf, xhalf, block_shape, num_comp,
             num_real, out_shape, raster_shape, block_gen, blocks_done, writes>>

\* One call of RasterStack.__getitem__
VARIABLES
    rd_pc,         \* position in __getitem__
    num_bands,     \* len(self)
    num_threads,   \* self.num_threads
    bands,         \* key[0]: a slice or an int
    band_idxs,     \* local band_idxs
    rd_queue,      \* the reads executor.map submitted, not yet started
    rd_running,    \* the reads a worker thread is making
    rd_done,       \* history: the reads in the order they completed
    rd_values,     \* the value of each completed read, by place in band_idxs
    rd_result      \* the array returned

readVars == <<rd_pc, num_bands, num_threads, bands, band_idxs, rd_queue,
              rd_running, rd_done, rd_values, rd_result>>

\* One call of create_ps
VARIABLES
    ps_pc,            \* position in create_ps
    existing_amp_mean_file,         \* argument: an existing file was given
    existing_amp_dispersion_file,   \* argument: an existing file was given
    update_existing,  \* argument update_existing
    use_existing,     \* existing files were given and update_existing is off
    ps_inputs,        \* history: the data the outputs were made from
    ps_shape,         \* reader.shape[-2:]
    ps_block_shape,   \* argument block_shape
    ps_block_gen,     \* the blocks the loader has still to go through
    work_queue,       \* the writes queued on the writer, not yet taken
    in_flight,        \* the write the background thread is making
    on_disk,          \* the writes made
    finished,         \* writer.notify_finished() was called
    ps_yielded,       \* history: the blocks the loader yielded
    ps_queued,        \* history: the calls of writer.queue_write
    left_at_notify    \* history: the writes outstanding at notify_finished

psVars == <<ps_pc, existing_amp_mean_file, existing_amp_dispersion_file,
            update_existing, use_existing, ps_inputs, ps_shape, ps_block_shape, ps_block_gen,
            work_queue, in_flight, on_disk, finished, ps_yielded, ps_queued,
            left_at_notify>>

\* One block of amplitudes given to calc_ps_block, or to one turn of the
\* loop of create_ps
VARIABLES
    px_pc,            \* "idle", "input", "calc" (calc_ps_block returned) or
                      \* "written" (the turn of the loop queued its writes)
    cur_data,         \* the block: for each pixel, its samples along the stack
    amp_dispersion_threshold,   \* the threshold, a fraction <<p, q>>
    min_count,        \* argument min_count of calc_ps_block, <<>> if left out
    mean,             \* output: the mean of each pixel, a fraction
    amp_disp,         \* output: the square of each pixel's dispersion
    ps                \* output: the PS mask

pxVars == <<px_pc, cur_data, amp_dispersion_threshold, min_count, mean,
            amp_disp, ps>>

\* One call of estimate_neighbors (shp/_glrt.py, shp/_tf_test.py)
VARIABLES
    shp_pc,           \* "idle", "input" or "done"
    method,           \* "glrt" or "tf"
    shp_stats,        \* the arrays mean and var: for each pixel <<r, c>>,
                      \* [mean |-> ..., var |-> ...]
    in_shape,         \* mean.shape, <<in_rows, in_cols>>
    halfwin_rowcol,   \* <<half_row, half_col>>
    strides_rowcol,   \* <<row_strides, col_strides>>
    threshold,        \* the cutoff of the GLRT, a fraction
    is_shp            \* output: for each <<out_r, out_c, r_off, c_off>>

shpVars == <<shp_pc, method, shp_stats, in_shape, halfwin_rowcol,
             strides_rowcol, threshold, is_shp>>

\* The metadata of one compressed SLC file (CompressedSlcInfo.write_metadata
\* and from_file_metadata)
VARIABLES
    md_pc,            \* "idle" or "calls"
    md_file,          \* the file: whether it exists, the metadata of each domain
    md_calls          \* history: the calls made, with what they found and gave

mdVars == <<md_pc, md_file, md_calls>>

\* One tile of a ministack, from the block generator to its three writes
VARIABLES
    tile_pc,          \* "idle", "loaded" or "saved"
    tile_rows,        \* rows: slice(r0, r1)
    tile_cols,        \* cols: slice(c0, c1)
    tile_strides,     \* strides, [y |-> ys, x |-> xs]
    tile_shapes       \* the shapes of the decimated tile, of the estimate
                      \* and of the output window, each <<rows, cols>>

tileVars == <<tile_pc, tile_rows, tile_cols, tile_strides, tile_shapes>>

\* the variables of the calls that are modelled on their own
fnVars == <<pxVars, shpVars, mdVars, tileVars>>

\* the variables of the planner, the estimator, the read and create_ps
pipelineVars == <<planVars, evdVars, blkVars, readVars, psVars>>

vars == <<planVars, evdVars, blkVars, readVars, psVars, fnVars>>

\* ------------------------------------------------------ BaseStack (stack.py)
\* _check_lengths: the exception the validator raises, "none" if it passes
CheckLengths(fl, ds, ic) ==
    IF Len(fl) = 0 THEN "ValueError"
    ELSE IF Len(fl) # Len(ic) THEN "ValueError"
    ELSE IF Len(ds) # Len(fl) THEN "ValueError"
    ELSE "none"

\* first_real_slc_idx: np.where(~is_compressed)[0][0]; -1 stands for the
\* ValueError raised when there is no real SLC
FirstRealSlcIdx(ic) ==
    LET real == Where([i \in 1..Len(ic) |-> ~ic[i]])
    IN IF real = <<>> THEN -1 ELSE real[1]

\* compressed_slc_file_list
CompressedSlcFileList(fl, ic) ==
    SelectSeq([i \in 1..Len(fl) |-> [f |-> fl[i], c |-> ic[i]]], LAMBDA e : e.c)

\* reference_date of a stack: dates[reference_idx][0]
ReferenceDateOk(ms) == PyIndexOk(ms.dates, ms.reference_idx)
ReferenceDate(ms) == PyIndex(ms.dates, ms.reference_idx)[1]

\* -------------------------------------------------------- CompressedSlcInfo
\* dates: the (reference, start, end) triplet
InfoDates(c) == <<c.reference_date, c.start_date, c.end_date>>

\* path: output_folder / compressed_<ref>_<start>_<end>.tif
InfoPath(c) ==
    [folder |-> c.output_folder, kind |-> "compressed",
     name |-> FormatDates(InfoDates(c))]

\* from_filename: the three dates parsed from the name; the file lists of the
\* descriptor stay None, written <<>> here
FromFilename(f) ==
    [reference_date |-> ParseDate(f.name[1]),
     start_date |-> ParseDate(f.name[2]),
     end_date |-> ParseDate(f.name[3]),
     real_slc_file_list |-> <<>>,
     real_slc_dates |-> <<>>,
     compressed_slc_file_list |-> <<>>,
     output_folder |-> f.folder]

\* ------------------------------------------------------------ MiniStackInfo
RealIdx(ms) == Where([i \in 1..Len(ms.is_compressed) |-> ~ms.is_compressed[i]])
CompIdx(ms) == Where(ms.is_compressed)

\* get_compressed_slc_info raises IndexError when reference_idx is outside
\* the stack or when the stack holds no real SLC
CompressedSlcInfoOk(ms) == ReferenceDateOk(ms) /\ RealIdx(ms) # <<>>

\* a descriptor derived from every entry of the stack, compressed ones included
GetCompressedSlcInfo_all(ms) ==
    [reference_date |-> ReferenceDate(ms),
     start_date |-> ms.dates[1][1],
     end_date |-> ms.dates[Len(ms.dates)][1],
     real_slc_file_list |-> ms.file_list,
     real_slc_dates |-> [k \in 1..Len(ms.dates) |-> ms.dates[k][1]],
     compressed_slc_file_list |-> <<>>,
     output_folder |-> ms.output_folder]

GetCompressedSlcInfo(ms) ==
    LET real == RealIdx(ms)
        comp == CompIdx(ms)
        real_slc_dates == [k \in 1..Len(real) |-> ms.dates[real[k] + 1]]
    IN [reference_date |-> ReferenceDate(ms),
        start_date |-> real_slc_dates[1][1],
        end_date |-> real_slc_dates[Len(real_slc_dates)][1],
        real_slc_file_list |-> [k \in 1..Len(real) |-> ms.file_list[real[k] + 1]],
        real_slc_dates |-> [k \in 1..Len(real) |-> real_slc_dates[k][1]],
        compressed_slc_file_list |-> [k \in 1..Len(comp) |-> ms.file_list[comp[k] + 1]],
        output_folder |-> ms.output_folder]

\* --------------------------------------------------------- MiniStackPlanner
\* the compressed SLCs prepended to a window: the last max_num_compressed
RetainedCompressed(infos, maxc) == LastN(infos, maxc)

\* the first compressed entry taken as the reference instead of the last
DefaultReferenceIdx_first(combined_is_compressed) == 0

\* the reference of a ministack with no manual index: the last compressed
\* entry, 0 when np.where finds none
DefaultReferenceIdx(combined_is_compressed) ==
    LET last_compressed_idx == Where(combined_is_compressed)
    IN IF last_compressed_idx = <<>> THEN 0
       ELSE last_compressed_idx[Len(last_compressed_idx)]

\* whether the next manual index is taken for the window ending at cur_end_idx
ManualApplies(idx_list, cur_end_idx) ==
    idx_list # <<>> /\ cur_end_idx > Head(idx_list)

\* the manual index relative to the window, after the prepended compressed SLCs
ManualReferenceIdx(m, start, num_ccslc) == m - start + num_ccslc

\* the caller's list sorted in place and popped, as manual_idxs.sort() would do
CallerIdxsAfterPop_alias(caller, local) == Tail(local)

\* sorted(manual_idxs or []) is a new list: popping it leaves the caller's
\* sequence as it was
CallerIdxsAfterPop(caller, local) == caller

\* The ministack plan builds for the window starting at start
BuildMinistack(start, fl, ds, ic, size, maxc, infos, idx_list) ==
    LET stop == start + size
        cur_files == Slice(fl, start, stop)
        cur_dates == Slice(ds, start, stop)
        kept == RetainedCompressed(infos, maxc)
        cur_comp_slc_files == [k \in 1..Len(kept) |-> InfoPath(kept[k])]
        num_ccslc == Len(cur_comp_slc_files)
        combined_is_compressed ==
            [k \in 1..num_ccslc |-> TRUE] \o Slice(ic, start, stop)
        last_dates == cur_dates[Len(cur_dates)]
    IN [file_list |-> cur_comp_slc_files \o cur_files,
        dates |-> [k \in 1..Len(kept) |-> InfoDates(kept[k])] \o cur_dates,
        is_compressed |-> combined_is_compressed,
        reference_idx |->
            IF ManualApplies(idx_list, stop)
            THEN ManualReferenceIdx(Head(idx_list), start, num_ccslc)
            ELSE DefaultReferenceIdx(combined_is_compressed),
        output_folder |->
            <<FormatDate(cur_dates[1][1]), FormatDate(last_dates[Len(last_dates)])>>]

\* ------------------------------------------------------------------ actions
IsScenario == Len(file_list) = Scenario.files

\* Construction of the planner: the validator of BaseStack runs on the fields
Construct ==
    /\ pc = "new"
    /\ LET e == CheckLengths(file_list, dates, is_compressed)
       IN /\ err' = e
          /\ pc' = IF e = "none" THEN "constructed" ELSE "raised"
    /\ UNCHANGED <<file_list, dates, is_compressed, max_num_compressed,
                   ministack_size, manual_idxs, manual_idx_list,
                   compressed_slc_infos, full_stack_idx, output_ministacks,
                   result, prev_result, calls, windows, inputs0>>

\* a size check that lets ministack_size = 1 through
SizeTooSmall_one(size) == size < 1

\* plan refuses a ministack_size below 2
SizeTooSmall(size) == size < 2

\* The start of plan(size, manual), up to the first pass of the loop
EnterPlan(size, manual) ==
    LET existing == CompressedSlcFileList(file_list, is_compressed)
        first == FirstRealSlcIdx(is_compressed)
    IN /\ ministack_size' = size
       /\ manual_idxs' = manual
       /\ calls' = calls + 1
       /\ output_ministacks' = <<>>
       /\ windows' = <<>>
       /\ result' = <<>>
       /\ IF SizeTooSmall(size) \/ first = -1
          THEN /\ pc' = "raised"
               /\ err' = "ValueError"
               /\ manual_idx_list' = IF SizeTooSmall(size) THEN <<>> ELSE Sorted(manual)
               /\ compressed_slc_infos' =
                      IF SizeTooSmall(size) THEN <<>>
                      ELSE [k \in 1..Len(existing) |-> FromFilename(existing[k].f)]
               /\ full_stack_idx' = 0
          ELSE /\ pc' = "planning"
               /\ err' = "none"
               /\ manual_idx_list' = Sorted(manual)
               /\ compressed_slc_infos' =
                      [k \in 1..Len(existing) |-> FromFilename(existing[k].f)]
               /\ full_stack_idx' = first
       /\ UNCHANGED <<file_list, dates, is_compressed, max_num_compressed>>

\* The lists of manual reference indices a caller may pass for n files: up to
\* MaxManual distinct positions of the file list, in any order
ManualSeqs(n) ==
    {s \in UNION {[1..m -> 0..(n - 1)] : m \in 0..MaxManual} :
        \A i, j \in 1..Len(s) : i # j => s[i] # s[j]}

PlanArgs ==
    IF IsScenario
    THEN {<<Scenario.ministack_size, <<>> >>}
    ELSE (1..MaxSize) \X ManualSeqs(Len(file_list))

\* The caller's first call of plan
PlanCall ==
    /\ pc = "constructed"
    /\ calls = 0
    /\ \E a \in PlanArgs :
          /\ EnterPlan(a[1], a[2])
          /\ inputs0' = [file_list |-> file_list, dates |-> dates,
                         is_compressed |-> is_compressed, manual_idxs |-> a[2]]
    /\ UNCHANGED prev_result

\* One pass of the loop of plan: the ministack of one window, then its
\* compressed descriptor appended to the lineage
PlanStep ==
    /\ pc = "planning"
    /\ full_stack_idx < Len(file_list)
    /\ LET ms == BuildMinistack(full_stack_idx, file_list, dates, is_compressed,
                                ministack_size, max_num_compressed,
                                compressed_slc_infos, manual_idx_list)
           popped == ManualApplies(manual_idx_list, full_stack_idx + ministack_size)
           e == CheckLengths(ms.file_list, ms.dates, ms.is_compressed)
       IN /\ windows' = Append(windows,
                 [start |-> full_stack_idx,
                  stop |-> full_stack_idx + ministack_size,
                  num_ccslc |-> Len(RetainedCompressed(compressed_slc_infos,
                                                       max_num_compressed)),
                  popped |-> popped,
                  m |-> IF popped THEN Head(manual_idx_list) ELSE -1])
          /\ manual_idx_list' = IF popped THEN Tail(manual_idx_list) ELSE manual_idx_list
          /\ manual_idxs' = IF popped
                            THEN CallerIdxsAfterPop(manual_idxs, manual_idx_list)
                            ELSE manual_idxs
          /\ IF e # "none"
             THEN /\ pc' = "raised"
                  /\ err' = e
                  /\ UNCHANGED <<output_ministacks, compressed_slc_infos, full_stack_idx>>
             ELSE /\ output_ministacks' = Append(output_ministacks, ms)
                  /\ IF CompressedSlcInfoOk(ms)
                     THEN /\ compressed_slc_infos' =
                                 Append(compressed_slc_infos, GetCompressedSlcInfo(ms))
                          /\ full_stack_idx' = full_stack_idx + ministack_size
                          /\ UNCHANGED <<pc, err>>
                     ELSE /\ pc' = "raised"
                          /\ err' = "IndexError"
                          /\ UNCHANGED <<compressed_slc_infos, full_stack_idx>>
    /\ UNCHANGED <<file_list, dates, is_compressed, max_num_compressed,
                   ministack_size, result, prev_result, calls, inputs0>>

\* The loop is over: plan returns output_ministacks
PlanReturn ==
    /\ pc = "planning"
    /\ full_stack_idx >= Len(file_list)
    /\ pc' = "done"
    /\ result' = output_ministacks
    /\ UNCHANGED <<err, file_list, dates, is_compressed, max_num_compressed,
                   ministack_size, manual_idxs, manual_idx_list,
                   compressed_slc_infos, full_stack_idx, output_ministacks,
                   prev_result, calls, windows, inputs0>>

\* The caller calls plan a second time on the same planner, with the same
\* ministack_size and the same sequence of manual indices
PlanAgain ==
    /\ pc = "done"
    /\ calls = 1
    /\ prev_result' = result
    /\ EnterPlan(ministack_size, manual_idxs)
    /\ UNCHANGED inputs0

InitInputs ==
    {[n |-> n, flags |-> flags, nd |-> nd, maxc |-> maxc] :
        n \in 0..MaxFiles, flags \in BoolSeqs(MaxFiles),
        nd \in 0..MaxFiles, maxc \in 0..MaxComp}
    \cup {[n |-> Scenario.files, flags |-> [i \in 1..Scenario.files |-> FALSE],
           nd |-> Scenario.files, maxc |-> Scenario.max_num_compressed]}

PlanInit ==
    /\ \E in \in InitInputs :
          /\ file_list = [i \in 1..in.n |-> InputFile(i - 1, in.flags)]
          /\ dates = [i \in 1..in.nd |-> InputDates(i - 1, in.flags)]
          /\ is_compressed = in.flags
          /\ max_num_compressed = in.maxc
    /\ pc = "new"
    /\ err = "none"
    /\ ministack_size = 0
    /\ manual_idxs = <<>>
    /\ manual_idx_list = <<>>
    /\ compressed_slc_infos = <<>>
    /\ full_stack_idx = 0
    /\ output_ministacks = <<>>
    /\ result = <<>>
    /\ prev_result = <<>>
    /\ calls = 0
    /\ windows = <<>>
    /\ inputs0 = [file_list |-> <<>>, dates |-> <<>>, is_compressed |-> <<>>,
                  manual_idxs |-> <<>>]

\* ------------------------------------------- sequential.py: paths on disk
\* A folder below output_folder: the folder of a ministack is named by the
\* first and last date of its real SLCs; "final" and "adjustments" are fixed.
MinistackFolder(d0, d1) == [top |-> "ministack", d0 |-> d0, d1 |-> d1]
FinalFolder == [top |-> "final", d0 |-> 0, d1 |-> 0]
AdjustmentsFolder == [top |-> "adjustments", d0 |-> 0, d1 |-> 0]
InputFolder == [top |-> "input", d0 |-> 0, d1 |-> 0]

\* A path: folder / name, the name being a kind and its date strings
PathOf(folder, kind, name) == [folder |-> folder, kind |-> kind, name |-> name]

\* slc_fname.rename(final_output_folder / slc_fname.name): the name is kept
FinalPath(f) == PathOf(FinalFolder, f.kind, f.name)

\* the input SLC of day d
InputSlc(d) == PathOf(InputFolder, "slc", <<d>>)

\* io.setup_output_folder(stack, start_idx): one empty output raster for each
\* file of the stack from start_idx on, in the folder of the stack, named
\* after the dates of that file
SetupOutputFolder(stack, start_idx, folder) ==
    LET kept == Slice(stack, start_idx, Len(stack))
    IN [k \in 1..Len(kept) |-> PathOf(folder, "out", kept[k].name)]

\* the tiles block_gen yields for a stack, in order
AllTiles == [t \in 1..NumTiles |-> t]

\* fs with the rasters of files created empty (those on disk are overwritten)
Created(disk, files) ==
    [f \in DOMAIN disk \cup files |-> IF f \in files THEN {} ELSE disk[f]]

\* io.save_block of one tile into each of files
Saved(disk, files, tile) ==
    [f \in DOMAIN disk |-> IF f \in files THEN disk[f] \cup {tile} ELSE disk[f]]

\* Path.rename of every file of files into the final folder
Renamed(disk, files) ==
    [f \in (DOMAIN disk \ files) \cup {FinalPath(g) : g \in files} |->
        IF \E g \in files : FinalPath(g) = f
        THEN disk[CHOOSE g \in files : FinalPath(g) = f]
        ELSE disk[f]]

Range(s) == {s[i] : i \in 1..Len(s)}

\* a reconcile pass entered even for a lone ministack
OnlyOneMinistack_never(comp) == Len(comp) = 0

\* len(comp_slc_files) == 1: there is nothing to adjust against
OnlyOneMinistack(comp) == Len(comp) = 1

\* ----------------------------------------- sequential.py: run_evd_sequential
\* One more ministack: its folder, its stack (the compressed SLCs so far, then
\* the window), its empty outputs, its empty compressed and tcorr rasters
StartMinistack ==
    /\ evd_pc = "loop"
    /\ evd_full_stack_idx < Len(file_list_all)
    /\ LET cur_files == Slice(file_list_all, evd_full_stack_idx,
                              evd_full_stack_idx + evd_ministack_size)
           d0 == cur_files[1].name[1]
           d1 == cur_files[Len(cur_files)].name[1]
           cur_output_folder == MinistackFolder(d0, d1)
           stack == comp_slc_files \o cur_files
           cur_output_files == SetupOutputFolder(stack, mini_idx, cur_output_folder)
           cur_comp_slc_file == PathOf(cur_output_folder, "compressed", <<d0, d1>>)
           tcorr_file == PathOf(cur_output_folder, "tcorr", <<d0, d1>>)
           vrt == PathOf(cur_output_folder, "vrt", <<d0, d1>>)
       IN /\ folders' = folders \cup {cur_output_folder}
          /\ fs' = Created(fs, {vrt, cur_comp_slc_file, tcorr_file}
                               \cup Range(cur_output_files))
          /\ output_slc_files' =
                 [i \in DOMAIN output_slc_files \cup {mini_idx} |->
                     IF i = mini_idx THEN cur_output_files ELSE output_slc_files[i]]
          /\ comp_slc_files' = Append(comp_slc_files, cur_comp_slc_file)
          /\ tcorr_files' = Append(tcorr_files, tcorr_file)
    /\ pending' = AllTiles
    /\ evd_pc' = "tiles"
    /\ UNCHANGED <<file_list_all, evd_ministack_size, evd_full_stack_idx, mini_idx,
                   adjusted_comp_slc_files, calc_inputs, kernel_calls, retval, saved>>

\* the call of run_mle on a tile of the current ministack
\* (ncomp: the compressed SLCs at the start of cur_vrt, those of the earlier
\* ministacks; the one of this ministack is already appended to the list)
MinistackKernelCall ==
    [pass |-> "ministack", mini_idx |-> mini_idx, reference_idx |-> mini_idx,
     ncomp |-> Len(comp_slc_files) - 1,
     nslc |-> Len(comp_slc_files) - 1
              + Len(Slice(file_list_all, evd_full_stack_idx,
                          evd_full_stack_idx + evd_ministack_size))]

\* A tile with no data: block_gen skips it, or np.all(cur_data == 0) does
TileEmpty ==
    /\ evd_pc = "tiles"
    /\ pending # <<>>
    /\ pending' = Tail(pending)
    /\ UNCHANGED <<evd_pc, file_list_all, evd_ministack_size, evd_full_stack_idx,
                   mini_idx, comp_slc_files, tcorr_files, output_slc_files,
                   adjusted_comp_slc_files, fs, calc_inputs, folders,
                   kernel_calls, retval, saved>>

\* A tile on which run_mle raises PhaseLinkRuntimeError: logged and skipped
TileNoValidPixels ==
    /\ evd_pc = "tiles"
    /\ pending # <<>>
    /\ kernel_calls' = kernel_calls \cup {MinistackKernelCall}
    /\ pending' = Tail(pending)
    /\ UNCHANGED <<evd_pc, file_list_all, evd_ministack_size, evd_full_stack_idx,
                   mini_idx, comp_slc_files, tcorr_files, output_slc_files,
                   adjusted_comp_slc_files, fs, calc_inputs, folders, retval, saved>>

\* A tile run_mle estimates: the phase-linked blocks of the real SLCs, the
\* temporal coherence block and the compressed block are saved
TileEstimated ==
    /\ evd_pc = "tiles"
    /\ pending # <<>>
    /\ kernel_calls' = kernel_calls \cup {MinistackKernelCall}
    /\ fs' = Saved(fs, Range(output_slc_files[mini_idx])
                       \cup {tcorr_files[Len(tcorr_files)],
                             comp_slc_files[Len(comp_slc_files)]},
                   Head(pending))
    /\ saved' = saved \cup
                 {[file |-> f, tile |-> Head(pending)] :
                     f \in Range(output_slc_files[mini_idx])
                            \cup {tcorr_files[Len(tcorr_files)],
                                  comp_slc_files[Len(comp_slc_files)]}}
    /\ pending' = Tail(pending)
    /\ UNCHANGED <<evd_pc, file_list_all, evd_ministack_size, evd_full_stack_idx,
                   mini_idx, comp_slc_files, tcorr_files, output_slc_files,
                   adjusted_comp_slc_files, calc_inputs, folders, retval>>

\* block_gen is exhausted: on to the next ministack
FinishMinistack ==
    /\ evd_pc = "tiles"
    /\ pending = <<>>
    /\ mini_idx' = mini_idx + 1
    /\ evd_full_stack_idx' = evd_full_stack_idx + evd_ministack_size
    /\ evd_pc' = "loop"
    /\ UNCHANGED <<file_list_all, evd_ministack_size, comp_slc_files, tcorr_files,
                   output_slc_files, adjusted_comp_slc_files, pending, fs,
                   calc_inputs, folders, kernel_calls, retval, saved>>

\* Only one ministack: its outputs and its tcorr raster are renamed into the
\* final folder and the function returns (None)
SingleBatchShortcut ==
    /\ evd_pc = "loop"
    /\ evd_full_stack_idx >= Len(file_list_all)
    /\ OnlyOneMinistack(comp_slc_files)
    /\ folders' = folders \cup {FinalFolder}
    /\ fs' = Renamed(fs, Range(output_slc_files[0]) \cup {tcorr_files[1]})
    /\ retval' = "None"
    /\ evd_pc' = "done"
    /\ UNCHANGED <<file_list_all, evd_ministack_size, evd_full_stack_idx, mini_idx,
                   comp_slc_files, tcorr_files, output_slc_files,
                   adjusted_comp_slc_files, pending, calc_inputs, kernel_calls, saved>>

\* Several ministacks: the stack of the compressed SLCs and its empty outputs
StartReconcile ==
    /\ evd_pc = "loop"
    /\ evd_full_stack_idx >= Len(file_list_all)
    /\ ~OnlyOneMinistack(comp_slc_files)
    /\ folders' = folders \cup {FinalFolder, AdjustmentsFolder}
    /\ LET adjusted == SetupOutputFolder(comp_slc_files, 0, AdjustmentsFolder)
       IN /\ adjusted_comp_slc_files' = adjusted
          /\ fs' = Created(fs, {PathOf(AdjustmentsFolder, "vrt", <<>>)}
                               \cup Range(adjusted))
    /\ pending' = AllTiles
    /\ evd_pc' = "reconcile"
    /\ UNCHANGED <<file_list_all, evd_ministack_size, evd_full_stack_idx, mini_idx,
                   comp_slc_files, tcorr_files, output_slc_files, calc_inputs,
                   kernel_calls, retval, saved>>

\* the call of run_mle on a tile of the compressed stack (of no ministack:
\* its mini_idx is written -1)
ReconcileKernelCall ==
    [pass |-> "reconcile", mini_idx |-> -1, reference_idx |-> 0,
     nslc |-> Len(comp_slc_files)]

\* A tile of the compressed stack with no data: block_gen skips it
ReconcileTileEmpty ==
    /\ evd_pc = "reconcile"
    /\ pending # <<>>
    /\ pending' = Tail(pending)
    /\ UNCHANGED <<evd_pc, file_list_all, evd_ministack_size, evd_full_stack_idx,
                   mini_idx, comp_slc_files, tcorr_files, output_slc_files,
                   adjusted_comp_slc_files, fs, calc_inputs, folders,
                   kernel_calls, retval, saved>>

\* run_mle raises PhaseLinkRuntimeError on a tile of the compressed stack:
\* nothing catches it there, the run ends with the exception
ReconcileTileNoValidPixels ==
    /\ evd_pc = "reconcile"
    /\ pending # <<>>
    /\ kernel_calls' = kernel_calls \cup {ReconcileKernelCall}
    /\ evd_pc' = "raised"
    /\ retval' = "PhaseLinkRuntimeError"
    /\ UNCHANGED <<file_list_all, evd_ministack_size, evd_full_stack_idx, mini_idx,
                   comp_slc_files, tcorr_files, output_slc_files,
                   adjusted_comp_slc_files, pending, fs, calc_inputs, folders, saved>>

\* A tile of the compressed stack run_mle estimates: one block per adjustment
ReconcileTileEstimated ==
    /\ evd_pc = "reconcile"
    /\ pending # <<>>
    /\ kernel_calls' = kernel_calls \cup {ReconcileKernelCall}
    /\ fs' = Saved(fs, Range(adjusted_comp_slc_files), Head(pending))
    /\ saved' = saved \cup {[file |-> f, tile |-> Head(pending)] :
                                f \in Range(adjusted_comp_slc_files)}
    /\ pending' = Tail(pending)
    /\ UNCHANGED <<evd_pc, file_list_all, evd_ministack_size, evd_full_stack_idx,
                   mini_idx, comp_slc_files, tcorr_files, output_slc_files,
                   adjusted_comp_slc_files, calc_inputs, folders, retval>>

\* every output of every ministack combined with the first adjustment raster
Compensations_first ==
    UNION {{[A |-> output_slc_files[i][k], B |-> adjusted_comp_slc_files[1]] :
               k \in 1..Len(output_slc_files[i])} : i \in DOMAIN output_slc_files}

\* the (output file, adjustment file) pairs gdal_calc combines: every output
\* of ministack mini_idx with adjusted_comp_slc_files[mini_idx]
Compensations ==
    UNION {{[A |-> output_slc_files[i][k], B |-> adjusted_comp_slc_files[i + 1]] :
               k \in 1..Len(output_slc_files[i])} : i \in DOMAIN output_slc_files}

\* The datum adjustment of every output of every ministack, the average of the
\* tcorr rasters, and the return of the final folder
CompensateAndAverage ==
    /\ evd_pc = "reconcile"
    /\ pending = <<>>
    /\ LET pairs == Compensations
           outfiles == {FinalPath(p.A) : p \in pairs}
           output_tcorr_file == PathOf(FinalFolder, "tcorr_average", <<>>)
       IN /\ fs' = Created(fs, outfiles \cup {output_tcorr_file})
          /\ calc_inputs' =
                 [f \in outfiles \cup {output_tcorr_file} |->
                     IF f = output_tcorr_file
                     THEN [A |-> Range(tcorr_files), B |-> {}]
                     ELSE LET p == CHOOSE p \in pairs : FinalPath(p.A) = f
                          IN [A |-> {p.A}, B |-> {p.B}]]
    /\ retval' = "final_output_folder"
    /\ evd_pc' = "done"
    /\ UNCHANGED <<file_list_all, evd_ministack_size, evd_full_stack_idx, mini_idx,
                   comp_slc_files, tcorr_files, output_slc_files,
                   adjusted_comp_slc_files, pending, folders, kernel_calls, saved>>

NoPaths == [f \in {} |-> {}]

\* The planner is not part of a run of the sequential estimator, nor the
\* estimator of a call of the planner: the state of the other stays as it is.
EvdIdle ==
    /\ evd_pc = "idle"
    /\ file_list_all = <<>>
    /\ evd_ministack_size = 0
    /\ evd_full_stack_idx = 0
    /\ mini_idx = 0
    /\ comp_slc_files = <<>>
    /\ tcorr_files = <<>>
    /\ output_slc_files = NoPaths
    /\ adjusted_comp_slc_files = <<>>
    /\ pending = <<>>
    /\ fs = NoPaths
    /\ calc_inputs = NoPaths
    /\ folders = {}
    /\ kernel_calls = {}
    /\ saved = {}
    /\ retval = "none"

\* The entry of run_evd_sequential: a stack of n SLCs and a ministack_size
EvdInit ==
    /\ \E n \in 1..MaxSeqFiles, size \in 1..MaxSeqSize :
          /\ file_list_all = [i \in 1..n |-> InputSlc(i)]
          /\ evd_ministack_size = size
          /\ fs = [f \in {InputSlc(i) : i \in 1..n} |-> {}]
    /\ evd_pc = "loop"
    /\ evd_full_stack_idx = 0
    /\ mini_idx = 0
    /\ comp_slc_files = <<>>
    /\ tcorr_files = <<>>
    /\ output_slc_files = NoPaths
    /\ adjusted_comp_slc_files = <<>>
    /\ pending = <<>>
    /\ calc_inputs = NoPaths
    /\ folders = {InputFolder}
    /\ kernel_calls = {}
    /\ saved = {}
    /\ retval = "none"

PlanIdle ==
    /\ pc = "idle"
    /\ err = "none"
    /\ file_list = <<>>
    /\ dates = <<>>
    /\ is_compressed = <<>>
    /\ max_num_compressed = 0
    /\ ministack_size = 0
    /\ manual_idxs = <<>>
    /\ manual_idx_list = <<>>
    /\ compressed_slc_infos = <<>>
    /\ full_stack_idx = 0
    /\ output_ministacks = <<>>
    /\ result = <<>>
    /\ prev_result = <<>>
    /\ calls = 0
    /\ windows = <<>>
    /\ inputs0 = [file_list |-> <<>>, dates |-> <<>>, is_compressed |-> <<>>,
                  manual_idxs |-> <<>>]

\* --------------- sequential.py: the rasters and the blocks of one ministack
\* slice(start, stop)
PySlice(start, stop) == [start |-> start, stop |-> stop]

\* io.compute_out_shape(shape, strides): the rows floor-divided by the y
\* stride, the columns by the x stride
ComputeOutShape(shape, strides) ==
    <<shape[1] \div strides.y, shape[2] \div strides.x>>

\* The offsets at which the blocks start along an axis of n samples: a block
\* starts `size` after the one before, brought back by the overlap unless
\* that one reached the edge
RECURSIVE BlockStarts(_, _, _, _)
BlockStarts(off, n, size, overlap) ==
    IF off >= n THEN <<>>
    ELSE LET nxt == off + size
         IN <<off>> \o BlockStarts(IF nxt < n THEN nxt - overlap ELSE nxt,
                                   n, size, overlap)

\* the slices of the blocks along an axis, the last one clipped to the scene
AxisSlices(n, size, overlap) ==
    LET starts == BlockStarts(0, n, size, overlap)
    IN [k \in 1..Len(starts) |-> PySlice(starts[k], Min(starts[k] + size, n))]

\* iter_blocks(overlaps=...): the (rows, cols) of the blocks, row by row
IterBlocks(shape, bshape, overlaps) ==
    LET r == AxisSlices(shape[1], bshape[1], overlaps[1])
        c == AxisSlices(shape[2], bshape[2], overlaps[2])
    IN [k \in 1..(Len(r) * Len(c)) |->
           [rows |-> r[((k - 1) \div Len(c)) + 1],
            cols |-> c[((k - 1) % Len(c)) + 1]]]

\* slice(rows.start // ys, rows.stop // ys): the place in the output raster
OutSlice(sl, stride) == PySlice(sl.start \div stride, sl.stop \div stride)

Strides == [y |-> ys, x |-> xs]

\* the rasters a ministack writes into: one for each real SLC of cur_vrt
\* (idx: its place in cur_vrt), the temporal coherence, the compressed SLC
OutputDest(idx) == [kind |-> "out", idx |-> idx]
TcorrDest == [kind |-> "tcorr", idx |-> 0]
CompDest == [kind |-> "compressed", idx |-> 0]

\* cur_output_files: setup_output_folder(cur_vrt, start_idx=mini_idx)
CurOutputDests == [k \in 1..num_real |-> OutputDest(num_comp + k - 1)]

\* the rasters setup_output_folder makes are on the stride-decimated grid
OutputRasterShape == ComputeOutShape(<<ysize, xsize>>, Strides)

\* the order of the calls of io.save_block for one block
SaveOrder == CurOutputDests \o <<TcorrDest, CompDest>>

\* a block written at (out_rows, out_cols) lies inside a raster of this shape
Fits(out_rows, out_cols, shape) ==
    out_rows.stop <= shape[1] /\ out_cols.stop <= shape[2]

\* the first call of io.save_block, in SaveOrder, whose block does not lie
\* inside its raster; 0 when every block does
FirstFailure(out_rows, out_cols) ==
    LET bad == {k \in 1..Len(SaveOrder) :
                   ~Fits(out_rows, out_cols, raster_shape[SaveOrder[k]])}
    IN IF bad = {} THEN 0 ELSE CHOOSE k \in bad : \A j \in bad : k <= j

\* the records of the blocks stored by the first n calls of SaveOrder
Stored(n, blk) ==
    {[dest |-> SaveOrder[k], rows |-> blk.rows, cols |-> blk.cols,
      out_rows |-> OutSlice(blk.rows, ys), out_cols |-> OutSlice(blk.cols, xs)] :
        k \in 1..n}

\* out_shape, the empty output rasters, the empty compressed and tcorr
\* rasters, and the block generator
AllocateRasters ==
    /\ blk_pc = "start"
    /\ out_shape' = ComputeOutShape(<<ysize, ysize>>, Strides)
    /\ raster_shape' =
           [d \in Range(SaveOrder) |->
               IF d.kind = "out" THEN OutputRasterShape
               ELSE ComputeOutShape(<<ysize, ysize>>, Strides)]
    /\ block_gen' = IterBlocks(<<ysize, xsize>>, block_shape, <<yhalf, xhalf>>)
    /\ blk_pc' = "blocks"
    /\ UNCHANGED <<ysize, xsize, ys, xs, yhalf, xhalf, block_shape, num_comp,
                   num_real, blocks_done, writes>>

\* A block that is all zero, or on which run_mle raises
\* PhaseLinkRuntimeError: continue
BlockSkipped ==
    /\ blk_pc = "blocks"
    /\ block_gen # <<>>
    /\ blocks_done' = Append(blocks_done,
                             [rows |-> Head(block_gen).rows,
                              cols |-> Head(block_gen).cols,
                              outcome |-> "skipped"])
    /\ block_gen' = Tail(block_gen)
    /\ UNCHANGED <<blk_pc, ysize, xsize, ys, xs, yhalf, xhalf, block_shape,
                   num_comp, num_real, out_shape, raster_shape, writes>>

\* A block run_mle estimates, every output block of which lies inside its
\* raster: the phase-linked blocks of the real SLCs, the tcorr block and the
\* compressed block are saved at (out_rows, out_cols)
BlockEstimated ==
    /\ blk_pc = "blocks"
    /\ block_gen # <<>>
    /\ LET blk == Head(block_gen)
       IN /\ FirstFailure(OutSlice(blk.rows, ys), OutSlice(blk.cols, xs)) = 0
          /\ writes' = writes \cup Stored(Len(SaveOrder), blk)
          /\ blocks_done' = Append(blocks_done,
                                   [rows |-> blk.rows, cols |-> blk.cols,
                                    outcome |-> "estimated"])
    /\ block_gen' = Tail(block_gen)
    /\ UNCHANGED <<blk_pc, ysize, xsize, ys, xs, yhalf, xhalf, block_shape,
                   num_comp, num_real, out_shape, raster_shape>>

\* A block run_mle estimates, an output block of which reaches past the edge
\* of its raster: the write is refused, the error leaves run_evd_sequential,
\* and only the blocks saved before it are on disk
BlockWriteFails ==
    /\ blk_pc = "blocks"
    /\ block_gen # <<>>
    /\ LET blk == Head(block_gen)
           k == FirstFailure(OutSlice(blk.rows, ys), OutSlice(blk.cols, xs))
       IN /\ k > 0
          /\ writes' = writes \cup Stored(k - 1, blk)
          /\ blocks_done' = Append(blocks_done,
                                   [rows |-> blk.rows, cols |-> blk.cols,
                                    outcome |-> "estimated"])
    /\ blk_pc' = "raised"
    /\ UNCHANGED <<ysize, xsize, ys, xs, yhalf, xhalf, block_shape, num_comp,
                   num_real, out_shape, raster_shape, block_gen>>

\* block_gen is exhausted: the ministack is finished
BlocksDone ==
    /\ blk_pc = "blocks"
    /\ block_gen = <<>>
    /\ blk_pc' = "done"
    /\ UNCHANGED <<ysize, xsize, ys, xs, yhalf, xhalf, block_shape, num_comp,
                   num_real, out_shape, raster_shape, block_gen, blocks_done,
                   writes>>

NoRasters == [d \in {} |-> <<0, 0>>]

BlkIdle ==
    /\ blk_pc = "idle"
    /\ ysize = 0 /\ xsize = 0
    /\ ys = 0 /\ xs = 0
    /\ yhalf = 0 /\ xhalf = 0
    /\ block_shape = <<0, 0>>
    /\ num_comp = 0
    /\ num_real = 0
    /\ out_shape = <<0, 0>>
    /\ raster_shape = NoRasters
    /\ block_gen = <<>>
    /\ blocks_done = <<>>
    /\ writes = {}

\* The top of the body of the loop for one ministack: a scene, strides, a
\* half window, the block the memory allows (larger than the overlap), and
\* a stack of num_comp compressed and num_real real SLCs
BlkInit ==
    /\ ysize \in 1..MaxDim /\ xsize \in 1..MaxDim
    /\ ys \in 1..MaxStride /\ xs \in 1..MaxStride
    /\ yhalf \in 0..MaxHalf /\ xhalf \in 0..MaxHalf
    /\ block_shape \in (1..MaxBlock) \X (1..MaxBlock)
    /\ yhalf < block_shape[1] /\ xhalf < block_shape[2]
    /\ Len(IterBlocks(<<ysize, xsize>>, block_shape, <<yhalf, xhalf>>)) <= MaxBlocks
    /\ num_comp \in 0..MaxPrior
    /\ num_real \in 1..MaxReal
    /\ blk_pc = "start"
    /\ out_shape = <<0, 0>>
    /\ raster_shape = NoRasters
    /\ block_gen = <<>>
    /\ blocks_done = <<>>
    /\ writes = {}

\* ------------------------------------- _readers.py: RasterStack.__getitem__
\* self.readers[i][rows, cols]: the block of the file of band i; the data
\* of a file does not change between two reads
ReaderBlock(i) == [band |-> i]

\* list(range(*bands.indices(len(self)))) for a slice, [bands] for an int
BandIdxs(key, n) ==
    IF key.kind = "int" THEN <<key.start>>
    ELSE LET a == Min(key.start, n)
             b == Min(key.stop, n)
         IN [k \in 1..Max(b - a, 0) |-> a + k - 1]

\* np.stack([self.readers[i][rows, cols] for i in band_idxs], axis=-1)
SequentialRead(idxs) == [k \in 1..Len(idxs) |-> ReaderBlock(idxs[k])]

\* the reads stacked in the order they completed
MapResults_completed(values, order) ==
    [k \in 1..Len(order) |-> values[order[k]]]

\* list(executor.map(...)): the results in the order of band_idxs
MapResults(values, order) ==
    [k \in 1..Len(order) |-> values[k]]

NoValues == [k \in {} |-> ReaderBlock(0)]

\* the band key is unpacked into band_idxs
GetItem ==
    /\ rd_pc = "call"
    /\ band_idxs' = BandIdxs(bands, num_bands)
    /\ rd_pc' = "read"
    /\ UNCHANGED <<num_bands, num_threads, bands, rd_queue, rd_running, rd_done,
                   rd_values, rd_result>>

\* np.stack of an empty list, with or without the pool
StackOfNothing ==
    /\ rd_pc = "read"
    /\ band_idxs = <<>>
    /\ rd_pc' = "raised"
    /\ UNCHANGED <<num_bands, num_threads, bands, band_idxs, rd_queue, rd_running,
                   rd_done, rd_values, rd_result>>

\* num_threads == 0: the bands are read one after the other
ReadSequential ==
    /\ rd_pc = "read"
    /\ band_idxs # <<>>
    /\ num_threads = 0
    /\ rd_result' = SequentialRead(band_idxs)
    /\ rd_pc' = "returned"
    /\ UNCHANGED <<num_bands, num_threads, bands, band_idxs, rd_queue, rd_running,
                   rd_done, rd_values>>

\* executor.map submits one read for each entry of band_idxs
SubmitReads ==
    /\ rd_pc = "read"
    /\ band_idxs # <<>>
    /\ num_threads > 0
    /\ rd_queue' = [k \in 1..Len(band_idxs) |-> k]
    /\ rd_pc' = "pool"
    /\ UNCHANGED <<num_bands, num_threads, bands, band_idxs, rd_running, rd_done,
                   rd_values, rd_result>>

\* a free worker thread of the pool takes the next submitted read
WorkerStart ==
    /\ rd_pc = "pool"
    /\ rd_queue # <<>>
    /\ Cardinality(rd_running) < num_threads
    /\ rd_running' = rd_running \cup {Head(rd_queue)}
    /\ rd_queue' = Tail(rd_queue)
    /\ UNCHANGED <<rd_pc, num_bands, num_threads, bands, band_idxs, rd_done,
                   rd_values, rd_result>>

\* one of the reads under way completes
WorkerFinish ==
    /\ rd_pc = "pool"
    /\ \E k \in rd_running :
          /\ rd_running' = rd_running \ {k}
          /\ rd_values' = [j \in DOMAIN rd_values \cup {k} |->
                              IF j = k THEN ReaderBlock(band_idxs[k])
                              ELSE rd_values[j]]
          /\ rd_done' = Append(rd_done, k)
    /\ UNCHANGED <<rd_pc, num_bands, num_threads, bands, band_idxs, rd_queue,
                   rd_result>>

\* the with block is left once every read completed; the results are stacked
StackResults ==
    /\ rd_pc = "pool"
    /\ rd_queue = <<>>
    /\ rd_running = {}
    /\ rd_result' = MapResults(rd_values, rd_done)
    /\ rd_pc' = "returned"
    /\ UNCHANGED <<num_bands, num_threads, bands, band_idxs, rd_queue, rd_running,
                   rd_done, rd_values>>

ReadIdle ==
    /\ rd_pc = "idle"
    /\ num_bands = 0
    /\ num_threads = 0
    /\ bands = [kind |-> "int", start |-> 0, stop |-> 0]
    /\ band_idxs = <<>>
    /\ rd_queue = <<>>
    /\ rd_running = {}
    /\ rd_done = <<>>
    /\ rd_values = NoValues
    /\ rd_result = <<>>

\* A stack of num_bands files, its num_threads, and the band part of the
\* key: an int, or a slice(start, stop)
ReadInit ==
    /\ num_bands \in 1..MaxBands
    /\ num_threads \in 0..MaxThreads
    /\ \/ \E i \in 0..(num_bands - 1) :
             bands = [kind |-> "int", start |-> i, stop |-> i + 1]
       \/ \E a \in 0..num_bands, b \in 0..(num_bands + 1) :
             bands = [kind |-> "slice", start |-> a, stop |-> b]
    /\ rd_pc = "call"
    /\ band_idxs = <<>>
    /\ rd_queue = <<>>
    /\ rd_running = {}
    /\ rd_done = <<>>
    /\ rd_values = NoValues
    /\ rd_result = <<>>

\* ------------------------------------------------------ ps.py: create_ps
\* the three files create_ps writes, in the order of the queue_write calls
PsFiles == <<"output_amp_mean_file", "output_amp_dispersion_file", "output_file">>

\* writer.queue_write(arr, file, rows.start, cols.start) for the three files
\* of block k of the blocks yielded
BlockWrites(k, blk) ==
    [j \in 1..Len(PsFiles) |->
        [block |-> k, file |-> PsFiles[j],
         row |-> blk.rows.start, col |-> blk.cols.start]]

\* create_ps returning as soon as notify_finished was called
Drained_flag == finished

\* notify_finished returns: no write is queued and none is being made
Drained == work_queue = <<>> /\ in_flight = <<>>

\* The existing amplitude files are used as they are: the three files are
\* written in place and create_ps returns; no writer is made
PsUseExisting ==
    /\ ps_pc = "start"
    /\ use_existing
    /\ on_disk' = {[block |-> 0, file |-> PsFiles[j], row |-> 0, col |-> 0] :
                      j \in 1..Len(PsFiles)}
    /\ ps_inputs' = {"existing"}
    /\ ps_pc' = "returned"
    /\ UNCHANGED <<existing_amp_mean_file, existing_amp_dispersion_file,
                   update_existing, use_existing, ps_shape, ps_block_shape,
                   ps_block_gen,
                   work_queue, in_flight, finished, ps_yielded, ps_queued,
                   left_at_notify>>

\* The empty output files, the writer and its thread, the block loader
PsSetup ==
    /\ ps_pc = "start"
    /\ ~use_existing
    /\ ps_block_gen' = IterBlocks(ps_shape, ps_block_shape, <<0, 0>>)
    /\ ps_pc' = "loop"
    /\ UNCHANGED <<existing_amp_mean_file, existing_amp_dispersion_file,
                   update_existing, use_existing, ps_inputs, ps_shape,
                   ps_block_shape, work_queue, in_flight,
                   on_disk, finished, ps_yielded, ps_queued, left_at_notify>>

\* the loader passes over a block that is empty, or all nodata: not yielded
LoaderSkips ==
    /\ ps_pc = "loop"
    /\ ps_block_gen # <<>>
    /\ ps_block_gen' = Tail(ps_block_gen)
    /\ UNCHANGED <<ps_pc, existing_amp_mean_file, existing_amp_dispersion_file,
                   update_existing, use_existing, ps_inputs, ps_shape,
                   ps_block_shape, work_queue,
                   in_flight, on_disk, finished, ps_yielded, ps_queued,
                   left_at_notify>>

\* One turn of the loop: the block is computed (or filled with nodata) and
\* its mean, amplitude dispersion and PS mask are queued on the writer
PsBlock ==
    /\ ps_pc = "loop"
    /\ ps_block_gen # <<>>
    /\ LET blk == Head(ps_block_gen)
           reqs == BlockWrites(Len(ps_yielded) + 1, blk)
       IN /\ ps_yielded' = Append(ps_yielded, blk)
          /\ work_queue' = work_queue \o reqs
          /\ ps_queued' = ps_queued \o reqs
    /\ ps_inputs' = ps_inputs \cup {"stack"}
    /\ ps_block_gen' = Tail(ps_block_gen)
    /\ UNCHANGED <<ps_pc, existing_amp_mean_file, existing_amp_dispersion_file,
                   update_existing, use_existing, ps_shape, ps_block_shape,
                   in_flight,
                   on_disk, finished, left_at_notify>>

\* the background thread takes the next write of the queue
WriterTakes ==
    /\ ps_pc \in {"loop", "notify"}
    /\ work_queue # <<>>
    /\ in_flight = <<>>
    /\ in_flight' = <<Head(work_queue)>>
    /\ work_queue' = Tail(work_queue)
    /\ UNCHANGED <<ps_pc, existing_amp_mean_file, existing_amp_dispersion_file,
                   update_existing, use_existing, ps_inputs, ps_shape,
                   ps_block_shape, ps_block_gen,
                   on_disk, finished, ps_yielded, ps_queued, left_at_notify>>

\* the background thread has written the block
WriterWrites ==
    /\ ps_pc \in {"loop", "notify"}
    /\ in_flight # <<>>
    /\ on_disk' = on_disk \cup {in_flight[1]}
    /\ in_flight' = <<>>
    /\ UNCHANGED <<ps_pc, existing_amp_mean_file, existing_amp_dispersion_file,
                   update_existing, use_existing, ps_inputs, ps_shape,
                   ps_block_shape, ps_block_gen,
                   work_queue, finished, ps_yielded, ps_queued, left_at_notify>>

\* the loop is over: writer.notify_finished() is called and waits
NotifyFinished ==
    /\ ps_pc = "loop"
    /\ ps_block_gen = <<>>
    /\ finished' = TRUE
    /\ left_at_notify' = Len(work_queue) + Len(in_flight)
    /\ ps_pc' = "notify"
    /\ UNCHANGED <<existing_amp_mean_file, existing_amp_dispersion_file,
                   update_existing, use_existing, ps_inputs, ps_shape,
                   ps_block_shape, ps_block_gen,
                   work_queue, in_flight, on_disk, ps_yielded, ps_queued>>

\* notify_finished returns and create_ps with it
PsReturn ==
    /\ ps_pc = "notify"
    /\ Drained
    /\ ps_pc' = "returned"
    /\ UNCHANGED <<existing_amp_mean_file, existing_amp_dispersion_file,
                   update_existing, use_existing, ps_inputs, ps_shape,
                   ps_block_shape, ps_block_gen,
                   work_queue, in_flight, on_disk, finished, ps_yielded,
                   ps_queued, left_at_notify>>

PsIdle ==
    /\ ps_pc = "idle"
    /\ existing_amp_mean_file = FALSE
    /\ existing_amp_dispersion_file = FALSE
    /\ update_existing = FALSE
    /\ use_existing = FALSE
    /\ ps_inputs = {}
    /\ ps_shape = <<0, 0>>
    /\ ps_block_shape = <<0, 0>>
    /\ ps_block_gen = <<>>
    /\ work_queue = <<>>
    /\ in_flight = <<>>
    /\ on_disk = {}
    /\ finished = FALSE
    /\ ps_yielded = <<>>
    /\ ps_queued = <<>>
    /\ left_at_notify = 0

\* The entry of create_ps: a reader over a scene, a block shape, the
\* existing files given or not, and update_existing; the existing files are
\* used as they are when both are given and update_existing is off
PsInit ==
    /\ existing_amp_mean_file \in BOOLEAN
    /\ existing_amp_dispersion_file \in BOOLEAN
    /\ update_existing \in BOOLEAN
    /\ use_existing = (/\ existing_amp_dispersion_file
                       /\ existing_amp_mean_file
                       /\ ~update_existing)
    /\ ps_inputs = {}
    /\ ps_shape \in (1..MaxDim) \X (1..MaxDim)
    /\ ps_block_shape \in (1..MaxBlock) \X (1..MaxBlock)
    /\ Len(IterBlocks(ps_shape, ps_block_shape, <<0, 0>>)) <= MaxBlocks
    /\ ps_pc = "start"
    /\ ps_block_gen = <<>>
    /\ work_queue = <<>>
    /\ in_flight = <<>>
    /\ on_disk = {}
    /\ finished = FALSE
    /\ ps_yielded = <<>>
    /\ ps_queued = <<>>
    /\ left_at_notify = 0

\* ------------------------------------------------- calc_ps_block (ps.py)
\* A value is an exact fraction num/den; 0/0 is NaN and 1/0 is infinity. A
\* sample is NaN or an integer n/1. The dispersion std/mean is not negative
\* here, and amp_disp holds its square, so that "dispersion < threshold"
\* can be decided exactly.
NaN == [num |-> 0, den |-> 0]
Inf == [num |-> 1, den |-> 0]
Zero == [num |-> 0, den |-> 1]
Int2Sample(n) == [num |-> n, den |-> 1]
NODATA_PS == 255

\* the samples a pixel can hold, and the thresholds
Samples == {NaN, Int2Sample(0), Int2Sample(1), Int2Sample(-3)}
Thresholds == {<<1, 2>>, <<1, 1>>, <<2, 1>>}

\* np.abs of a block
Abs(x) == IF x = NaN THEN NaN ELSE IF x.num < 0 THEN Int2Sample(-x.num) ELSE x
AbsBlock(block) ==
    [i \in 1..Len(block) |-> [k \in 1..Len(block[i]) |-> Abs(block[i][k])]]

\* np.count_nonzero(~np.isnan(...)) of a pixel
Count(px) == Cardinality({k \in 1..Len(px) : px[k] # NaN})

RECURSIVE NanSum(_)
NanSum(px) ==
    IF px = <<>> THEN 0
    ELSE (IF Head(px) = NaN THEN 0 ELSE Head(px).num) + NanSum(Tail(px))

NanSumSq(px) ==
    NanSum([k \in 1..Len(px) |->
        IF px[k] = NaN THEN NaN ELSE Int2Sample(px[k].num * px[k].num)])

\* np.nanmean of a pixel: NaN for a pixel with no sample
NanMean(px) ==
    IF Count(px) = 0 THEN NaN ELSE [num |-> NanSum(px), den |-> Count(px)]

\* std_dev / mean, squared: np.nanstd squared is (c*Q - S*S) / (c*c) and
\* the mean squared is (S*S) / (c*c)
StdOverMean(px) ==
    LET c == Count(px)
        S == NanSum(px)
        Q == NanSumSq(px)
    IN IF c = 0 THEN NaN
       ELSE IF S = 0 THEN (IF c * Q - S * S = 0 THEN NaN ELSE Inf)
       ELSE [num |-> c * Q - S * S, den |-> S * S]

\* np.nan_to_num(..., nan=0, posinf=0, neginf=0)
NanToNum(x) == IF x \in {NaN, Inf} THEN Zero ELSE x

\* == 0
IsZero(f) == f.num = 0 /\ f.den # 0

\* dispersion < threshold, on the square of the dispersion
Below(disp, thr) == disp.num * thr[2] * thr[2] < thr[1] * thr[1] * disp.den

\* min_count = int(0.9 * stack_mag.shape[0]) when it is left out
DefaultMinCount(depth) == (9 * depth) \div 10

\* ps = amp_disp < amp_dispersion_threshold, without the line that follows
PsMask_below(disp, thr) == Below(disp, thr)

\* ps = amp_disp < amp_dispersion_threshold; ps[amp_disp == 0] = False
PsMask(disp, thr) == Below(disp, thr) /\ ~IsZero(disp)

\* calc_ps_block(stack_mag, amp_dispersion_threshold, min_count): the mean,
\* the amplitude dispersion and the boolean mask of each pixel
CalcPsBlock(stack_mag, thr, mc) ==
    LET depth == Len(stack_mag[1])
        minc == IF mc = <<>> THEN DefaultMinCount(depth) ELSE mc[1]
        disp == [i \in 1..Len(stack_mag) |->
                    NanToNum(IF Count(stack_mag[i]) < minc THEN NaN
                             ELSE StdOverMean(stack_mag[i]))]
    IN [mean |-> [i \in 1..Len(stack_mag) |-> NanToNum(NanMean(stack_mag[i]))],
        amp_disp |-> disp,
        ps |-> [i \in 1..Len(stack_mag) |-> PsMask(disp[i], thr)]]

\* np.all(cur_data == 0), np.all(np.isnan(cur_data))
AllZero(block) ==
    \A i \in 1..Len(block) : \A k \in 1..Len(block[i]) : block[i][k] = Zero
AllNaN(block) ==
    \A i \in 1..Len(block) : \A k \in 1..Len(block[i]) : block[i][k] = NaN

\* ps.astype(uint8), without the line that follows
Uint8Mask_astype(mask, disp) ==
    [i \in 1..Len(mask) |-> IF mask[i] THEN 1 ELSE 0]

\* ps = ps.astype(uint8); ps[amp_disp == 0] = NODATA_VALUES["ps"]
Uint8Mask(mask, disp) ==
    [i \in 1..Len(mask) |->
        IF IsZero(disp[i]) THEN NODATA_PS ELSE IF mask[i] THEN 1 ELSE 0]

\* One turn of the loop of create_ps: what it queues for the block
LoopTurn(block, thr) ==
    IF ~(AllZero(block) \/ AllNaN(block))
    THEN LET magnitude_cur == AbsBlock(block)
             r == CalcPsBlock(magnitude_cur, thr, <<Len(magnitude_cur[1])>>)
         IN [mean |-> r.mean, amp_disp |-> r.amp_disp,
             ps |-> Uint8Mask(r.ps, r.amp_disp)]
    ELSE [mean |-> [i \in 1..Len(block) |-> Zero],
          amp_disp |-> [i \in 1..Len(block) |-> Zero],
          ps |-> [i \in 1..Len(block) |-> NODATA_PS]]

\* the values min_count is given: <<>> when it is left out (None), or a
\* count up to the depth
MinCounts(depth) == {<<>>} \cup {<<n>> : n \in 0..depth}

\* calc_ps_block is called on the magnitudes of the block
CalcPsBlockCall ==
    /\ px_pc = "input"
    /\ \E mc \in MinCounts(Len(cur_data[1])) :
          LET r == CalcPsBlock(AbsBlock(cur_data), amp_dispersion_threshold, mc)
          IN /\ min_count' = mc
             /\ mean' = r.mean
             /\ amp_disp' = r.amp_disp
             /\ ps' = r.ps
    /\ px_pc' = "calc"
    /\ UNCHANGED <<cur_data, amp_dispersion_threshold>>

\* the loader of create_ps yielded the block: one turn of the loop
PsLoopTurn ==
    /\ px_pc = "input"
    /\ LET r == LoopTurn(cur_data, amp_dispersion_threshold)
       IN /\ mean' = r.mean
          /\ amp_disp' = r.amp_disp
          /\ ps' = r.ps
    /\ min_count' = <<Len(cur_data[1])>>
    /\ px_pc' = "written"
    /\ UNCHANGED <<cur_data, amp_dispersion_threshold>>

PxIdle ==
    /\ px_pc = "idle"
    /\ cur_data = <<>>
    /\ amp_dispersion_threshold = <<0, 1>>
    /\ min_count = <<>>
    /\ mean = <<>>
    /\ amp_disp = <<>>
    /\ ps = <<>>

\* the blocks of n pixels and a stack of depth d
Blocks(n, d) == [1..n -> [1..d -> Samples]]

PxInit ==
    /\ \E n \in 1..MaxPixels : \E d \in 1..MaxDepth :
          n * d <= MaxSamples /\ cur_data \in Blocks(n, d)
    /\ amp_dispersion_threshold \in Thresholds
    /\ px_pc = "input"
    /\ min_count = <<>>
    /\ mean = <<>>
    /\ amp_disp = <<>>
    /\ ps = <<>>

\* ------------------------------------- estimate_neighbors (shp/_glrt.py,
\* shp/_tf_test.py)
Frac(n, d) == [num |-> n, den |-> d]
\* a / b and a < b, for fractions of positive denominator (b > 0 in a / b)
FracDiv(a, b) == Frac(a.num * b.den, a.den * b.num)
FracLess(a, b) == a.num * b.den < b.num * a.den

\* the mean and the variance a pixel can have
PixelStats == {[mean |-> 1, var |-> 1], [mean |-> 3, var |-> 1]}

\* the cutoffs get_glrt_cutoff can return
GlrtCutoffs == {Frac(2, 1), Frac(6, 1)}

\* nslc and the upper critical values of the t test and of the F test; the
\* lower ones are -cv_t_high (t is symmetric) and 1 / cv_f_high (the F
\* distribution has the same degrees of freedom above and below)
TfInputs == [nslc |-> 2, cv_t_high |-> Frac(3, 2), cv_f_high |-> Frac(3, 1)]

\* _get_slices(half_r, half_c, r, c, rows, cols): the window around
\* (r, c), clamped to the image
GetSlices(half_r, half_c, r, c, rows, cols) ==
    [r_start |-> Max(r - half_r, 0), r_end |-> Min(r + half_r + 1, rows),
     c_start |-> Max(c - half_c, 0), c_end |-> Min(c + half_c + 1, cols)]

\* scale_squared = (var + mean**2) / 2
ScaleSquared(st) == Frac(st.var + st.mean * st.mean, 2)

\* f_ratio = scale_1 / scale_2, without the lines that follow
FRatio_plain(scale_1, scale_2) == FracDiv(scale_1, scale_2)

\* f_ratio = scale_1 / scale_2; if f_ratio < 1: f_ratio = 1 / f_ratio
FRatio(scale_1, scale_2) ==
    LET f_ratio == FracDiv(scale_1, scale_2)
    IN IF FracLess(f_ratio, Frac(1, 1)) THEN FracDiv(Frac(1, 1), f_ratio)
       ELSE f_ratio

\* the GLRT of two pixels: f_ratio < threshold
GlrtTest(st1, st2, thr) ==
    FracLess(FRatio(ScaleSquared(st1), ScaleSquared(st2)), thr)

\* the combined test of two pixels. t_stat = (mu1 - mu2) / sqrt((var1 +
\* var2) / nslc) lies between -cv and cv exactly when its square
\* (mu1 - mu2)^2 * nslc / (var1 + var2) is below cv^2
TfTest(st1, st2) ==
    LET d == st1.mean - st2.mean
        t_stat_sq == Frac(d * d * TfInputs.nslc, st1.var + st2.var)
        cv_t == TfInputs.cv_t_high
        cv_f == TfInputs.cv_f_high
        f_stat == Frac(st1.var, st2.var)
        passes_t == FracLess(t_stat_sq, Frac(cv_t.num * cv_t.num,
                                             cv_t.den * cv_t.den))
        passes_f == /\ FracLess(Frac(cv_f.den, cv_f.num), f_stat)
                    /\ FracLess(f_stat, cv_f)
    IN passes_t /\ passes_f

\* the input pixel of an output pixel along an axis: r0 + out_r * stride,
\* r0 = stride // 2
InPixel(out, stride) == (stride \div 2) + out * stride

\* the indices of is_shp
ShpIndices(shape, half, strides) ==
    LET out == ComputeOutShape(shape, [y |-> strides[1], x |-> strides[2]])
    IN (0..(out[1] - 1)) \X (0..(out[2] - 1))
          \X (0..(2 * half[1])) \X (0..(2 * half[2]))

\* _loop_over_pixels: is_shp is all False at first; the loop writes the
\* entries of the clamped window, at their offsets from the window's start
LoopOverPixels(m, stats, shape, half, strides, thr) ==
    [idx \in ShpIndices(shape, half, strides) |->
        LET in_r == InPixel(idx[1], strides[1])
            in_c == InPixel(idx[2], strides[2])
            w == GetSlices(half[1], half[2], in_r, in_c, shape[1], shape[2])
            in_r2 == w.r_start + idx[3]
            in_c2 == w.c_start + idx[4]
        IN IF in_r2 >= w.r_end \/ in_c2 >= w.c_end THEN FALSE
           ELSE IF in_r2 = in_r /\ in_c2 = in_c THEN TRUE
           ELSE IF m = "glrt"
                THEN GlrtTest(stats[<<in_r, in_c>>], stats[<<in_r2, in_c2>>], thr)
                ELSE TfTest(stats[<<in_r, in_c>>], stats[<<in_r2, in_c2>>])]

\* estimate_neighbors runs
EstimateNeighbors ==
    /\ shp_pc = "input"
    /\ is_shp' = LoopOverPixels(method, shp_stats, in_shape, halfwin_rowcol,
                                strides_rowcol, threshold)
    /\ shp_pc' = "done"
    /\ UNCHANGED <<method, shp_stats, in_shape, halfwin_rowcol,
                   strides_rowcol, threshold>>

ShpIdle ==
    /\ shp_pc = "idle"
    /\ method = "glrt"
    /\ shp_stats = <<>>
    /\ in_shape = <<0, 0>>
    /\ halfwin_rowcol = <<0, 0>>
    /\ strides_rowcol = <<1, 1>>
    /\ threshold = Frac(0, 1)
    /\ is_shp = <<>>

ShpInit ==
    /\ in_shape \in (1..MaxShpDim) \X (1..MaxShpDim)
    /\ shp_stats \in
          [(0..(in_shape[1] - 1)) \X (0..(in_shape[2] - 1)) -> PixelStats]
    /\ halfwin_rowcol \in (0..MaxHalf) \X (0..MaxHalf)
    /\ strides_rowcol \in (1..MaxStride) \X (1..MaxStride)
    /\ \/ method = "glrt" /\ threshold \in GlrtCutoffs
       \/ method = "tf" /\ threshold = Frac(0, 1)
    /\ shp_pc = "input"
    /\ is_shp = <<>>

\* --------------------- CompressedSlcInfo: the metadata of a file (stack.py)
\* the domains from_file_metadata looks into, in its order
Domains == <<"DOLPHIN", "">>

\* The metadata of a domain is a descriptor, 1..MaxMeta, or nothing
NoMetadata == 0
Metadata == 0..MaxMeta

\* a file that does not exist, and the files that do
NoFile == [exists |-> FALSE, md |-> [d \in {"DOLPHIN", ""} |-> NoMetadata]]
Files ==
    {NoFile} \cup [exists : {TRUE}, md : [{"DOLPHIN", ""} -> Metadata]]

\* io.get_raster_metadata(filename, domain): empty when the domain holds none
GetRasterMetadata(file, domain) == file.md[domain]

\* io.set_raster_metadata(out, metadata, domain)
SetRasterMetadata(file, metadata, domain) ==
    [file EXCEPT !.md[domain] = metadata]

\* the loop over the domains: the metadata of the first domain that holds
\* any, NoMetadata when the loop runs to its end (the for-else)
RECURSIVE FirstMetadata(_, _)
FirstMetadata(file, k) ==
    IF k > Len(Domains) THEN NoMetadata
    ELSE IF GetRasterMetadata(file, Domains[k]) # NoMetadata
         THEN GetRasterMetadata(file, Domains[k])
         ELSE FirstMetadata(file, k + 1)

\* from_file_metadata(filename): the exception raised, or the descriptor
FromFileMetadata(file) ==
    IF ~file.exists THEN [raised |-> "FileNotFoundError", out |-> NoMetadata]
    ELSE IF FirstMetadata(file, 1) = NoMetadata
         THEN [raised |-> "ValueError", out |-> NoMetadata]
         ELSE [raised |-> "none", out |-> FirstMetadata(file, 1)]

\* write_metadata without its check that the file exists
WriteMetadata_unchecked(file, info, domain) ==
    [raised |-> "none",
     file |-> SetRasterMetadata([file EXCEPT !.exists = TRUE], info, domain)]

\* info.write_metadata(domain): the exception raised, and the file after
WriteMetadata(file, info, domain) ==
    IF ~file.exists THEN [raised |-> "FileNotFoundError", file |-> file]
    ELSE [raised |-> "none", file |-> SetRasterMetadata(file, info, domain)]

\* CompressedSlcInfo.from_file_metadata is called on the file
FromFileMetadataCall ==
    /\ md_pc = "calls"
    /\ Len(md_calls) < MaxCalls
    /\ LET r == FromFileMetadata(md_file)
       IN md_calls' = Append(md_calls,
              [op |-> "from_file_metadata", before |-> md_file,
               after |-> md_file, raised |-> r.raised, out |-> r.out])
    /\ UNCHANGED <<md_pc, md_file>>

\* write_metadata of a descriptor is called on the file
WriteMetadataCall ==
    /\ md_pc = "calls"
    /\ Len(md_calls) < MaxCalls
    /\ \E info \in 1..MaxMeta : \E domain \in {"DOLPHIN", ""} :
          LET r == WriteMetadata(md_file, info, domain)
          IN /\ md_file' = r.file
             /\ md_calls' = Append(md_calls,
                    [op |-> "write_metadata", before |-> md_file,
                     after |-> r.file, raised |-> r.raised, out |-> info])
    /\ UNCHANGED md_pc

MdIdle ==
    /\ md_pc = "idle"
    /\ md_file = NoFile
    /\ md_calls = <<>>

MdInit ==
    /\ md_pc = "calls"
    /\ md_file \in Files
    /\ md_calls = <<>>

\* ----------------------- sequential.py: the shapes of one tile's outputs
\* len(a[start::step]) for an axis of n samples
SteppedLen(n, start, step) ==
    Cardinality({i \in 0..(n - 1) : i >= start /\ (i - start) % step = 0})

\* len(range(sl.start, sl.stop)) of a slice inside the raster
SliceLen(sl) == Max(sl.stop - sl.start, 0)

\* cur_data[mini_idx:, ys // 2 :: ys, xs // 2 :: xs].shape[1:]
DecimatedShape(trows, tcols, strides) ==
    <<SteppedLen(SliceLen(trows), strides.y \div 2, strides.y),
      SteppedLen(SliceLen(tcols), strides.x \div 2, strides.x)>>

\* the shape of the estimate run_mle gives for the tile
MleShape(trows, tcols, strides) ==
    ComputeOutShape(<<SliceLen(trows), SliceLen(tcols)>>, strides)

\* the shape of (out_rows, out_cols)
OutWindowShape(trows, tcols, strides) ==
    <<SliceLen(OutSlice(trows, strides.y)), SliceLen(OutSlice(tcols, strides.x))>>

\* One turn of the loop over the tiles, for a tile that is estimated
SaveTile ==
    /\ tile_pc = "loaded"
    /\ tile_shapes' =
          [decimated |-> DecimatedShape(tile_rows, tile_cols, tile_strides),
           mle |-> MleShape(tile_rows, tile_cols, tile_strides),
           window |-> OutWindowShape(tile_rows, tile_cols, tile_strides)]
    /\ tile_pc' = "saved"
    /\ UNCHANGED <<tile_rows, tile_cols, tile_strides>>

NoShapes == [decimated |-> <<0, 0>>, mle |-> <<0, 0>>, window |-> <<0, 0>>]

TileIdle ==
    /\ tile_pc = "idle"
    /\ tile_rows = PySlice(0, 0)
    /\ tile_cols = PySlice(0, 0)
    /\ tile_strides = [y |-> 1, x |-> 1]
    /\ tile_shapes = NoShapes

\* the slices of an axis: 0 <= start < stop <= MaxTileStop
TileSlices ==
    {sl \in [start : 0..(MaxTileStop - 1), stop : 1..MaxTileStop] :
        sl.start < sl.stop}

TileInit ==
    /\ tile_pc = "loaded"
    /\ tile_rows \in TileSlices
    /\ tile_cols \in TileSlices
    /\ tile_strides \in [y : 1..MaxTileStride, x : 1..MaxTileStride]
    /\ tile_shapes = NoShapes

FnIdle == PxIdle /\ ShpIdle /\ MdIdle /\ TileIdle

\* ------------------------------------------------------- the planner alone
Init == PlanInit /\ EvdIdle /\ BlkIdle /\ ReadIdle /\ PsIdle /\ FnIdle

Next ==
    \/ Construct /\ UNCHANGED <<evdVars, blkVars, readVars, psVars, fnVars>>
    \/ PlanCall /\ UNCHANGED <<evdVars, blkVars, readVars, psVars, fnVars>>
    \/ PlanStep /\ UNCHANGED <<evdVars, blkVars, readVars, psVars, fnVars>>
    \/ PlanReturn /\ UNCHANGED <<evdVars, blkVars, readVars, psVars, fnVars>>
    \/ PlanAgain /\ UNCHANGED <<evdVars, blkVars, readVars, psVars, fnVars>>

Spec == Init /\ [][Next]_vars

\* ---------------------------------------------- the sequential estimator alone
InitSeq == EvdInit /\ PlanIdle /\ BlkIdle /\ ReadIdle /\ PsIdle /\ FnIdle

NextSeq ==
    \/ StartMinistack /\ UNCHANGED <<planVars, blkVars, readVars, psVars, fnVars>>
    \/ TileEmpty /\ UNCHANGED <<planVars, blkVars, readVars, psVars, fnVars>>
    \/ TileNoValidPixels /\ UNCHANGED <<planVars, blkVars, readVars, psVars, fnVars>>
    \/ TileEstimated /\ UNCHANGED <<planVars, blkVars, readVars, psVars, fnVars>>
    \/ FinishMinistack /\ UNCHANGED <<planVars, blkVars, readVars, psVars, fnVars>>
    \/ SingleBatchShortcut /\ UNCHANGED <<planVars, blkVars, readVars, psVars, fnVars>>
    \/ StartReconcile /\ UNCHANGED <<planVars, blkVars, readVars, psVars, fnVars>>
    \/ ReconcileTileEmpty /\ UNCHANGED <<planVars, blkVars, readVars, psVars, fnVars>>
    \/ ReconcileTileNoValidPixels /\ UNCHANGED <<planVars, blkVars, readVars, psVars, fnVars>>
    \/ ReconcileTileEstimated /\ UNCHANGED <<planVars, blkVars, readVars, psVars, fnVars>>
    \/ CompensateAndAverage /\ UNCHANGED <<planVars, blkVars, readVars, psVars, fnVars>>

SpecSeq == InitSeq /\ [][NextSeq]_vars

\* ------------------------------ the rasters and blocks of one ministack alone
InitBlocks == BlkInit /\ PlanIdle /\ EvdIdle /\ ReadIdle /\ PsIdle /\ FnIdle

NextBlocks ==
    \/ AllocateRasters /\ UNCHANGED <<planVars, evdVars, readVars, psVars, fnVars>>
    \/ BlockSkipped /\ UNCHANGED <<planVars, evdVars, readVars, psVars, fnVars>>
    \/ BlockEstimated /\ UNCHANGED <<planVars, evdVars, readVars, psVars, fnVars>>
    \/ BlockWriteFails /\ UNCHANGED <<planVars, evdVars, readVars, psVars, fnVars>>
    \/ BlocksDone /\ UNCHANGED <<planVars, evdVars, readVars, psVars, fnVars>>

SpecBlocks == InitBlocks /\ [][NextBlocks]_vars

\* ------------------------------------------- the read of a RasterStack alone
InitRead == ReadInit /\ PlanIdle /\ EvdIdle /\ BlkIdle /\ PsIdle /\ FnIdle

NextRead ==
    \/ GetItem /\ UNCHANGED <<planVars, evdVars, blkVars, psVars, fnVars>>
    \/ StackOfNothing /\ UNCHANGED <<planVars, evdVars, blkVars, psVars, fnVars>>
    \/ ReadSequential /\ UNCHANGED <<planVars, evdVars, blkVars, psVars, fnVars>>
    \/ SubmitReads /\ UNCHANGED <<planVars, evdVars, blkVars, psVars, fnVars>>
    \/ WorkerStart /\ UNCHANGED <<planVars, evdVars, blkVars, psVars, fnVars>>
    \/ WorkerFinish /\ UNCHANGED <<planVars, evdVars, blkVars, psVars, fnVars>>
    \/ StackResults /\ UNCHANGED <<planVars, evdVars, blkVars, psVars, fnVars>>

SpecRead == InitRead /\ [][NextRead]_vars

\* ------------------------------------------------------------ create_ps alone
InitPs == PsInit /\ PlanIdle /\ EvdIdle /\ BlkIdle /\ ReadIdle /\ FnIdle

NextPs ==
    \/ PsUseExisting /\ UNCHANGED <<planVars, evdVars, blkVars, readVars, fnVars>>
    \/ PsSetup /\ UNCHANGED <<planVars, evdVars, blkVars, readVars, fnVars>>
    \/ LoaderSkips /\ UNCHANGED <<planVars, evdVars, blkVars, readVars, fnVars>>
    \/ PsBlock /\ UNCHANGED <<planVars, evdVars, blkVars, readVars, fnVars>>
    \/ WriterTakes /\ UNCHANGED <<planVars, evdVars, blkVars, readVars, fnVars>>
    \/ WriterWrites /\ UNCHANGED <<planVars, evdVars, blkVars, readVars, fnVars>>
    \/ NotifyFinished /\ UNCHANGED <<planVars, evdVars, blkVars, readVars, fnVars>>
    \/ PsReturn /\ UNCHANGED <<planVars, evdVars, blkVars, readVars, fnVars>>

SpecPs == InitPs /\ [][NextPs]_vars

\* ------------------------------------------ one block of amplitudes alone
InitPsBlock ==
    /\ PxInit /\ ShpIdle /\ MdIdle /\ TileIdle
    /\ PlanIdle /\ EvdIdle /\ BlkIdle /\ ReadIdle /\ PsIdle

NextPsBlock ==
    \/ CalcPsBlockCall /\ UNCHANGED <<pipelineVars, shpVars, mdVars, tileVars>>
    \/ PsLoopTurn /\ UNCHANGED <<pipelineVars, shpVars, mdVars, tileVars>>

SpecPsBlock == InitPsBlock /\ [][NextPsBlock]_vars

\* ------------------------------------------------ estimate_neighbors alone
InitShp ==
    /\ ShpInit /\ PxIdle /\ MdIdle /\ TileIdle
    /\ PlanIdle /\ EvdIdle /\ BlkIdle /\ ReadIdle /\ PsIdle

NextShp == EstimateNeighbors /\ UNCHANGED <<pipelineVars, pxVars, mdVars, tileVars>>

SpecShp == InitShp /\ [][NextShp]_vars

\* ------------------------------------------- the metadata of a file alone
InitMeta ==
    /\ MdInit /\ PxIdle /\ ShpIdle /\ TileIdle
    /\ PlanIdle /\ EvdIdle /\ BlkIdle /\ ReadIdle /\ PsIdle

NextMeta ==
    \/ FromFileMetadataCall /\ UNCHANGED <<pipelineVars, pxVars, shpVars, tileVars>>
    \/ WriteMetadataCall /\ UNCHANGED <<pipelineVars, pxVars, shpVars, tileVars>>

SpecMeta == InitMeta /\ [][NextMeta]_vars

\* ------------------------------------------------- one tile's shapes alone
InitTile ==
    /\ TileInit /\ PxIdle /\ ShpIdle /\ MdIdle
    /\ PlanIdle /\ EvdIdle /\ BlkIdle /\ ReadIdle /\ PsIdle

NextTile == SaveTile /\ UNCHANGED <<pipelineVars, pxVars, shpVars, mdVars>>

SpecTile == InitTile /\ [][NextTile]_vars

\* ------------------------------------------------- properties of the planner
\* the number of compressed files that were handed to the planner
NumExisting == Len(CompressedSlcFileList(file_list, is_compressed))

\* the paths of the lineage as ministack k (1-based) found it: the files
\* handed in, then the outputs of the ministacks before k
LineageBefore(k) ==
    [j \in 1..(NumExisting + k - 1) |-> InfoPath(compressed_slc_infos[j])]

\* the entries of a ministack flagged compressed, and the others, in order
CompressedEntries(ms) ==
    LET at == CompIdx(ms) IN [j \in 1..Len(at) |-> ms.file_list[at[j] + 1]]
NumCompressed(ms) == Cardinality({i \in 1..Len(ms.is_compressed) : ms.is_compressed[i]})
NumReal(ms) == Cardinality({i \in 1..Len(ms.is_compressed) : ~ms.is_compressed[i]})

\* the last compressed entry if there is one, else 0
IsLastCompressedOrZero(ms, idx) ==
    IF \E i \in 1..Len(ms.is_compressed) : ms.is_compressed[i]
    THEN /\ idx >= 0 /\ idx < Len(ms.is_compressed)
         /\ ms.is_compressed[idx + 1]
         /\ \A i \in (idx + 2)..Len(ms.is_compressed) : ~ms.is_compressed[i]
    ELSE idx = 0

\* the input list has its compressed entries before its real ones
CompressedFirst ==
    \A i, j \in 1..Len(is_compressed) :
        (i < j /\ is_compressed[j]) => is_compressed[i]

\* C1: every ministack plan builds holds at most max_num_compressed compressed
\* entries, and they are the most recent entries of the lineage, in lineage
\* order. Stated as claimed, for the input lists whose compressed entries
\* come first; the code breaks it for max_num_compressed = 0.
C1_RetentionCap ==
    CompressedFirst =>
    \A k \in 1..Len(output_ministacks) :
        LET held == CompressedEntries(output_ministacks[k])
            lin == LineageBefore(k)
        IN /\ Len(held) <= max_num_compressed
           /\ Len(held) = Min(max_num_compressed, Len(lin))
           /\ held = SubSeq(lin, Len(lin) - Len(held) + 1, Len(lin))

Lengths(mss) == [k \in 1..Len(mss) |-> Len(mss[k].file_list)]
CompressedCounts(mss) == [k \in 1..Len(mss) |-> NumCompressed(mss[k])]

ScenarioPlanned == IsScenario /\ pc = "done"

\* C2 as claimed: the scenario (25 acquisitions, ministack_size 10,
\* max_num_compressed 5) yields 3 ministacks of lengths (10, 11, 9).
C2_ScenarioAsClaimed ==
    ScenarioPlanned =>
        /\ Lengths(result) = <<10, 11, 9>>
        /\ CompressedCounts(result) = <<0, 1, 2>>

\* C2 amended: the scenario yields 3 ministacks of lengths (10, 11, 7): the
\* third holds the last 5 acquisitions after 2 compressed ones.
C2_ScenarioLengths ==
    ScenarioPlanned =>
        /\ Lengths(result) = <<10, 11, 7>>
        /\ CompressedCounts(result) = <<0, 1, 2>>

C2_Witness == ScenarioPlanned /\ Len(result) = 3

ManualIn(k) ==
    {inputs0.manual_idxs[i] : i \in 1..Len(inputs0.manual_idxs)}
        \cap (windows[k].start)..(windows[k].stop - 1)

\* C4: the ministack of the window that contains a manual index m has
\* reference_idx = m - start + (number of prepended compressed entries), and a
\* window containing no manual index keeps the default reference. (Stated as
\* claimed; the code breaks it when two indices fall in one window.)
C4_ManualReference ==
    \A k \in 1..Len(output_ministacks) :
        LET ms == output_ministacks[k]
        IN /\ \A m \in ManualIn(k) :
                 ms.reference_idx = m - windows[k].start + windows[k].num_ccslc
           /\ ManualIn(k) = {} => IsLastCompressedOrZero(ms, ms.reference_idx)

RealFiles(ms) == SelectSeq(ms.file_list, LAMBDA f : f.kind = "slc")
RealDates(ms) == SelectSeq(ms.dates, LAMBDA d : Len(d) = 1)
Holds(ms, f) == \E i \in 1..Len(ms.file_list) : ms.file_list[i] = f

\* C5: the descriptor appended to the lineage after ministack k is derived
\* from the real entries of k alone, and its file is an input of the later
\* ministacks j with j - k <= max_num_compressed and of no ministack j <= k.
C5_LineageChained ==
    \A k \in 1..Len(output_ministacks) :
        NumExisting + k <= Len(compressed_slc_infos) =>
            LET ms == output_ministacks[k]
                c == compressed_slc_infos[NumExisting + k]
            IN /\ c.start_date = RealDates(ms)[1][1]
               /\ c.end_date = RealDates(ms)[Len(RealDates(ms))][1]
               /\ c.reference_date = ReferenceDate(ms)
               /\ c.real_slc_file_list = RealFiles(ms)
               /\ \A i \in 1..Len(c.real_slc_file_list) :
                      c.real_slc_file_list[i].kind # "compressed"
               /\ \A j \in 1..Len(output_ministacks) :
                      /\ (j > k /\ j - k <= max_num_compressed)
                             => Holds(output_ministacks[j], InfoPath(c))
                      /\ j <= k => ~Holds(output_ministacks[j], InfoPath(c))

C5_Witness ==
    /\ pc = "done"
    /\ max_num_compressed = 1
    /\ Len(result) >= 3
    /\ NumExisting = 0
    /\ Holds(result[2], InfoPath(compressed_slc_infos[1]))
    /\ ~Holds(result[3], InfoPath(compressed_slc_infos[1]))
    /\ Holds(result[3], InfoPath(compressed_slc_infos[2]))

LengthsMismatch ==
    \/ Len(file_list) = 0
    \/ Len(is_compressed) # Len(file_list)
    \/ Len(dates) # Len(file_list)

C7_WellFormed ==
    \A k \in 1..Len(result) :
        LET ms == result[k]
        IN /\ Len(ms.file_list) >= 1
           /\ Len(ms.is_compressed) = Len(ms.file_list)
           /\ Len(ms.dates) = Len(ms.file_list)
           /\ \A i, j \in 1..Len(ms.is_compressed) :
                  (i < j /\ ms.is_compressed[j]) => ms.is_compressed[i]

\* C8: if the input holds a real acquisition, wherever its compressed entries
\* are, every ministack plan builds holds a real entry, and plan never fails
\* deriving a descriptor from an empty list of real entries. (Stated as
\* claimed; the code breaks it for a window made of compressed entries.)
C8_NoEmptyBatch ==
    (\E i \in 1..Len(is_compressed) : ~is_compressed[i]) =>
        \A k \in 1..Len(output_ministacks) : NumReal(output_ministacks[k]) >= 1

\* C9: a second call of plan with the same arguments returns the same
\* ministacks as the first, and no call changes the planner's file_list,
\* dates and is_compressed or the caller's sequence of manual indices.
C9_Deterministic ==
    /\ (calls = 2 /\ pc = "done") => result = prev_result
    /\ calls = 2 => pc # "raised"
    /\ calls >= 1 =>
           /\ file_list = inputs0.file_list
           /\ dates = inputs0.dates
           /\ is_compressed = inputs0.is_compressed
           /\ manual_idxs = inputs0.manual_idxs

C9_Witness ==
    /\ calls = 2 /\ pc = "done"
    /\ Len(result) >= 2
    /\ result = prev_result
    /\ \E k \in 1..Len(windows) : windows[k].popped
    /\ manual_idxs # Sorted(manual_idxs)


\* --------------------------------- properties of the sequential estimator
\* the tiles io.save_block wrote into f
TilesSaved(f) == {w.tile : w \in {v \in saved : v.file = f}}

\* ministack_size >= the number of acquisitions: there is one ministack
LoneMinistack == evd_ministack_size >= Len(file_list_all)

\* C10: when one ministack is produced, the reconcile pass is skipped
\* entirely: no adjustment stack is built, run_mle is never called on the
\* compressed SLCs, nothing is combined or averaged, and every phase-linked
\* output and the tcorr raster of the ministack ends in the final folder
\* under the name it had, holding the tiles that had been saved into it.
C10_SingleBatchShortcut ==
    (evd_pc # "idle" /\ LoneMinistack) =>
        /\ evd_pc \notin {"reconcile", "raised"}
        /\ adjusted_comp_slc_files = <<>>
        /\ AdjustmentsFolder \notin folders
        /\ \A f \in DOMAIN fs : f.folder # AdjustmentsFolder
        /\ \A c \in kernel_calls : c.pass = "ministack"
        /\ DOMAIN calc_inputs = {}
        /\ evd_pc = "done" =>
               /\ Len(comp_slc_files) = 1
               /\ \A f \in Range(output_slc_files[0]) \cup {tcorr_files[1]} :
                      /\ f \notin DOMAIN fs
                      /\ \E g \in DOMAIN fs :
                            /\ g.folder = FinalFolder
                            /\ g.kind = f.kind /\ g.name = f.name
                            /\ fs[g] = TilesSaved(f)
               /\ Cardinality({g \in DOMAIN fs : g.folder = FinalFolder})
                      = Len(file_list_all) + 1

C10_Witness ==
    /\ evd_pc = "done"
    /\ LoneMinistack
    /\ Len(file_list_all) >= 2
    /\ \E g \in DOMAIN fs : g.folder = FinalFolder /\ g.kind = "out" /\ fs[g] # {}
    /\ \E g \in DOMAIN fs : g.folder = FinalFolder /\ g.kind = "tcorr"

\* C11: the reference_idx handed to run_mle for a ministack is the index, in
\* the stack of that ministack, of the most recent compressed SLC when the
\* stack holds one, and 0 when it holds none.
\* (Stated as claimed; run_evd_sequential passes the index of the first real
\* SLC, one past the most recent compressed SLC.)
C11_ReferenceIdx ==
    \A c \in kernel_calls :
        c.pass = "ministack" =>
            c.reference_idx = (IF c.ncomp > 0 THEN c.ncomp - 1 ELSE 0)

\* C12: a PhaseLinkRuntimeError ("no valid pixels") of run_mle on a tile, of
\* a ministack or of the stack of compressed SLCs, never ends the run: the
\* run does not raise, and a run that is over has returned.
\* (Stated as claimed; the call of run_mle on the compressed stack is not
\* inside a try, so the exception leaves run_evd_sequential.)
C12_NoValidPixelsRecovered ==
    /\ evd_pc # "raised"
    /\ retval # "PhaseLinkRuntimeError"


\* ------------------- properties of the rasters and blocks of one ministack
\* the blocks io.save_block stored for the block blk of the scene
WritesOf(blk) == {r \in writes : r.rows = blk.rows /\ r.cols = blk.cols}

\* two slices with no index in common
DisjointSlices(a, b) ==
    \/ a.stop <= b.start
    \/ b.stop <= a.start
    \/ a.start >= a.stop
    \/ b.start >= b.stop

\* C13: the empty compressed raster and the empty temporal coherence raster
\* of a ministack have the shape (ysize // ys, xsize // xs), for a scene
\* that is square or not.
\* (Stated as claimed; out_shape is computed from (ysize, ysize).)
C13_OutShape ==
    blk_pc \notin {"idle", "start"} =>
        /\ raster_shape[CompDest] = <<ysize \div ys, xsize \div xs>>
        /\ raster_shape[TcorrDest] = <<ysize \div ys, xsize \div xs>>

\* C14: a block that is not skipped has all three outputs written (a
\* phase-linked block for each real SLC and for no compressed SLC of the
\* stack, the tcorr block, the compressed block), all at the window whose
\* offsets are the offsets of the block divided by the strides; a skipped
\* block has nothing written.
\* (Stated as claimed; where the scene has more columns than rows the tcorr
\* raster of C13 is too narrow for the window and the write is refused.)
C14_ThreeOutputsOneWindow ==
    \A b \in 1..Len(blocks_done) :
        LET blk == blocks_done[b]
        IN IF blk.outcome = "skipped"
           THEN WritesOf(blk) = {}
           ELSE /\ {r.dest : r \in WritesOf(blk)} = Range(SaveOrder)
                /\ \A r \in WritesOf(blk) :
                      /\ r.dest.kind = "out" => r.dest.idx >= num_comp
                      /\ r.out_rows.start = blk.rows.start \div ys
                      /\ r.out_rows.stop = blk.rows.stop \div ys
                      /\ r.out_cols.start = blk.cols.start \div xs
                      /\ r.out_cols.stop = blk.cols.stop \div xs

\* C15: the windows written into one raster for two different blocks of a
\* ministack have no row/column in common, the blocks overlapping by
\* (half_window.y, half_window.x), whatever the strides.
\* (Stated as claimed; the overlap of the blocks is carried into the windows.)
C15_DisjointWindows ==
    \A r1 \in writes, r2 \in writes :
        (r1.dest = r2.dest /\ <<r1.rows, r1.cols>> # <<r2.rows, r2.cols>>) =>
            \/ DisjointSlices(r1.out_rows, r2.out_rows)
            \/ DisjointSlices(r1.out_cols, r2.out_cols)


\* ------------------------- properties of the sequential estimator, continued
\* the ministacks a stack of n files makes with this ministack_size
NumMinistacks == (Len(file_list_all) + evd_ministack_size - 1) \div evd_ministack_size

\* the final files that are phase-linked outputs
FinalOutputs == {g \in DOMAIN fs : g.folder = FinalFolder /\ g.kind = "out"}

\* C16: with more than one ministack, run_mle is called on the stack of the
\* compressed SLCs, one per ministack, with reference_idx = 0; there is one
\* adjustment raster per ministack, that of ministack i made from its
\* compressed SLC; and when the pass is over every phase-linked output of
\* ministack i is combined with the adjustment raster of ministack i and no
\* other into the final file of that name, one final file per real SLC.
C16_DatumAdjustment ==
    /\ \A c \in kernel_calls :
          c.pass = "reconcile" =>
              /\ c.reference_idx = 0
              /\ c.nslc = NumMinistacks
              /\ NumMinistacks > 1
    /\ evd_pc = "reconcile" =>
          /\ Len(adjusted_comp_slc_files) = NumMinistacks
          /\ \A i \in 1..NumMinistacks :
                /\ adjusted_comp_slc_files[i].folder = AdjustmentsFolder
                /\ adjusted_comp_slc_files[i].name = comp_slc_files[i].name
    /\ (evd_pc = "done" /\ NumMinistacks > 1) =>
          /\ DOMAIN output_slc_files = 0..(NumMinistacks - 1)
          /\ \A i \in DOMAIN output_slc_files :
                \A k \in 1..Len(output_slc_files[i]) :
                    LET f == output_slc_files[i][k]
                        g == PathOf(FinalFolder, f.kind, f.name)
                    IN /\ g \in FinalOutputs
                       /\ calc_inputs[g] =
                              [A |-> {f}, B |-> {adjusted_comp_slc_files[i + 1]}]
          /\ {g.name : g \in FinalOutputs} = {f.name : f \in Range(file_list_all)}
          /\ Cardinality(FinalOutputs) = Len(file_list_all)

C16_Witness ==
    /\ evd_pc = "done"
    /\ NumMinistacks = 3
    /\ \E c \in kernel_calls : c.pass = "reconcile"
    /\ Cardinality({calc_inputs[g].B : g \in FinalOutputs}) = 3


\* C17: a run that is over, by the shortcut or by the reconcile pass, has
\* returned the final output folder, and the final folder holds the final
\* files and one averaged temporal coherence raster.
\* (Stated as claimed; the shortcut ends in a bare return and averages
\* nothing.)
C17_DoneYields ==
    evd_pc = "done" =>
        /\ retval = "final_output_folder"
        /\ FinalFolder \in folders
        /\ Cardinality(FinalOutputs) = Len(file_list_all)
        /\ PathOf(FinalFolder, "tcorr_average", <<>>) \in DOMAIN fs

\* the steps of the state machine INIT -> PER_MINISTACK(0) -> ... ->
\* PER_MINISTACK(n-1) -> (SINGLE_BATCH_SHORTCUT | RECONCILE) -> DONE
StateMachineStep ==
    \/ /\ evd_pc = "loop" /\ evd_pc' = "tiles"
       /\ mini_idx = Len(comp_slc_files)
       /\ mini_idx < NumMinistacks
       /\ pending = <<>>
       /\ mini_idx' = mini_idx
       /\ Len(comp_slc_files') = mini_idx + 1
    \/ /\ evd_pc = "tiles" /\ evd_pc' = "tiles"
       /\ pending # <<>> /\ pending' = Tail(pending)
       /\ mini_idx' = mini_idx
       /\ comp_slc_files' = comp_slc_files
    \/ /\ evd_pc = "tiles" /\ evd_pc' = "loop"
       /\ pending = <<>>
       /\ mini_idx' = mini_idx + 1
       /\ comp_slc_files' = comp_slc_files
    \/ /\ evd_pc = "loop" /\ evd_pc' = "done"
       /\ mini_idx = NumMinistacks /\ NumMinistacks = 1
       /\ pending = <<>>
    \/ /\ evd_pc = "loop" /\ evd_pc' = "reconcile"
       /\ mini_idx = NumMinistacks /\ NumMinistacks > 1
       /\ pending = <<>>
       /\ comp_slc_files' = comp_slc_files
    \/ /\ evd_pc = "reconcile" /\ evd_pc' = "reconcile"
       /\ pending # <<>> /\ pending' = Tail(pending)
       /\ comp_slc_files' = comp_slc_files
    \/ /\ evd_pc = "reconcile" /\ evd_pc' = "done"
       /\ pending = <<>>

\* C18: every run goes INIT -> PER_MINISTACK(0) -> ... -> PER_MINISTACK(n-1)
\* -> (shortcut or reconcile) -> DONE: the ministacks in increasing order,
\* each once; one of shortcut and reconcile; reconcile only after the last
\* tile of the last ministack; ministack i+1 started (its stack reading the
\* compressed raster of ministack i) only after every tile of ministack i.
\* (Stated as claimed; the exception of C12 takes the run out of RECONCILE
\* to no state of this machine.)
C18_StateMachine == [][StateMachineStep]_vars


\* ------------------------------------ properties of RasterStack.__getitem__
\* C19: the array __getitem__ returns with a pool of num_threads > 0
\* threads is the array it returns with num_threads = 0, the reads stacked
\* in the order of the bands whatever the order in which they completed;
\* and with no band selected np.stack raises with or without the pool.
C19_SameArrayAnyThreads ==
    /\ rd_pc = "returned" => rd_result = SequentialRead(BandIdxs(bands, num_bands))
    /\ rd_pc = "raised" => BandIdxs(bands, num_bands) = <<>>

C19_Witness ==
    /\ rd_pc = "returned"
    /\ num_threads = 2
    /\ Len(band_idxs) = 3
    /\ rd_done = <<2, 1, 3>>
    /\ rd_result = <<ReaderBlock(0), ReaderBlock(1), ReaderBlock(2)>>


\* ------------------------------------------------- properties of create_ps
\* the calls of queue_write made for block k of the blocks yielded
QueuedFor(k) == SelectSeq(ps_queued, LAMBDA q : q.block = k)

EffectiveMinCount ==
    IF min_count = <<>> THEN (9 * Len(cur_data[1])) \div 10 ELSE min_count[1]

\* C21: calc_ps_block marks a pixel PS exactly when its amplitude dispersion
\* is strictly below the threshold and is not 0; a pixel with fewer than
\* min_count non-NaN samples (int(0.9 * depth) when min_count is left out)
\* has dispersion 0 and is not PS; and under a threshold above every
\* dispersion of the block, every pixel of non-zero dispersion is PS.
C21_PsMask ==
    px_pc = "calc" =>
        /\ \A i \in 1..Len(cur_data) :
              /\ ps[i] <=> (/\ Below(amp_disp[i], amp_dispersion_threshold)
                            /\ ~IsZero(amp_disp[i]))
              /\ Count(cur_data[i]) < EffectiveMinCount =>
                    IsZero(amp_disp[i]) /\ ~ps[i]
        /\ (\A j \in 1..Len(cur_data) :
                Below(amp_disp[j], amp_dispersion_threshold)) =>
              \A i \in 1..Len(cur_data) : ~IsZero(amp_disp[i]) => ps[i]

\* a block with a PS pixel and a pixel that has samples, but too few
C21_Witness ==
    /\ px_pc = "calc"
    /\ \E i, j \in 1..Len(cur_data) :
          /\ ps[i]
          /\ Count(cur_data[j]) > 0
          /\ Count(cur_data[j]) < EffectiveMinCount

\* C22: every pixel of the PS mask create_ps writes is 0, 1 or 255, and 255
\* exactly when the pixel is invalid: its dispersion is 0, or its block is
\* all zero or all NaN; for such a block the mean and the dispersion
\* written are 0 everywhere.
C22_MaskValues ==
    px_pc = "written" =>
        LET blank == AllZero(cur_data) \/ AllNaN(cur_data)
        IN /\ \A i \in 1..Len(cur_data) :
                 /\ ps[i] \in {0, 1, NODATA_PS}
                 /\ ps[i] = NODATA_PS <=> (IsZero(amp_disp[i]) \/ blank)
           /\ blank => \A i \in 1..Len(cur_data) :
                          IsZero(mean[i]) /\ IsZero(amp_disp[i])

\* a block written with a PS pixel next to an invalid one
C22_Witness ==
    /\ px_pc = "written"
    /\ \E i, j \in 1..Len(cur_data) : ps[i] = 1 /\ ps[j] = NODATA_PS


\* C23: create_ps given both existing amplitude files and update_existing
\* makes the mean and the dispersion it writes from the existing statistics
\* and the current stack together.
\* (Stated as claimed; the existing files are not read on that path.)
C23_OnlineUpdate ==
    (/\ ps_pc = "returned"
     /\ existing_amp_mean_file
     /\ existing_amp_dispersion_file
     /\ update_existing
     /\ ps_queued # <<>>) => ps_inputs = {"existing", "stack"}


\* ------------------------------------- properties of estimate_neighbors
\* the output pixels of the call, and its input pixels
OutPixels ==
    LET out == ComputeOutShape(in_shape, [y |-> strides_rowcol[1],
                                          x |-> strides_rowcol[2]])
    IN (0..(out[1] - 1)) \X (0..(out[2] - 1))
InPixels == (0..(in_shape[1] - 1)) \X (0..(in_shape[2] - 1))

\* C24: for both strategies, every output pixel's window mask marks its
\* centre, the window index (half_row, half_col), as homogeneous, also
\* where the window is clamped at an edge of the scene.
\* (Stated as claimed; at the top and left edges the pixel's own entry is
\* not the centre of the window.)
C24_SelfInclusion ==
    shp_pc = "done" =>
        \A p \in OutPixels :
            is_shp[<<p[1], p[2], halfwin_rowcol[1], halfwin_rowcol[2]>>]

\* b lies in the window of a and a in the window of b
InEachOthersWindow(a, b) ==
    LET d1 == a[1] - b[1]
        d2 == a[2] - b[2]
    IN /\ -halfwin_rowcol[1] <= d1 /\ d1 <= halfwin_rowcol[1]
       /\ -halfwin_rowcol[2] <= d2 /\ d2 <= halfwin_rowcol[2]

\* with strides (1, 1): the entry of the mask of pixel a that stands for
\* the pixel b of its window, at b's offset from the start of the window
Marks(a, b) ==
    LET w == GetSlices(halfwin_rowcol[1], halfwin_rowcol[2], a[1], a[2],
                       in_shape[1], in_shape[2])
    IN is_shp[<<a[1], a[2], b[1] - w.r_start, b[2] - w.c_start>>]

C26_NoSilentSuccess ==
    \A k \in 1..Len(md_calls) :
        LET c == md_calls[k]
            empty == /\ c.before.md["DOLPHIN"] = NoMetadata
                     /\ c.before.md[""] = NoMetadata
        IN /\ c.op = "from_file_metadata" =>
                /\ ~c.before.exists => c.raised = "FileNotFoundError"
                /\ (c.before.exists /\ empty) => c.raised = "ValueError"
                /\ c.raised = "none" =>
                      c.out # NoMetadata /\ c.out \in {c.before.md["DOLPHIN"],
                                                      c.before.md[""]}
           /\ (c.op = "write_metadata" /\ ~c.before.exists) =>
                c.raised = "FileNotFoundError" /\ c.after = c.before

\* write_metadata was refused on a missing file, and from_file_metadata
\* then found the file missing
C26_Witness ==
    /\ Len(md_calls) = 2
    /\ md_calls[1].op = "write_metadata"
    /\ md_calls[1].raised = "FileNotFoundError"
    /\ md_calls[2].op = "from_file_metadata"
    /\ md_calls[2].raised = "FileNotFoundError"


\* C27: every ministack plan returns has a reference index inside its file
\* list, 0 <= reference_idx < len(file_list), for every ministack_size >= 2,
\* every max_num_compressed and every list of manual indices that are
\* positions of the planner's file list.
\* (Stated as claimed; a manual index left over from an earlier window gives
\* a negative reference index.)
C27_ReferenceInRange ==
    \A k \in 1..Len(result) :
        /\ 0 <= result[k].reference_idx
        /\ result[k].reference_idx < Len(result[k].file_list)


\* BaseStack.real_slc_file_list: the files not flagged compressed, in order
RealSlcFileList(fl, ic) ==
    LET at == SelectSeq([i \in 1..Len(fl) |-> i], LAMBDA i : ~ic[i])
    IN [j \in 1..Len(at) |-> fl[at[j]]]

\* the real files of the first k ministacks, one list after the other
RECURSIVE RealOfMinistacks(_, _)
RealOfMinistacks(mss, k) ==
    IF k = 0 THEN <<>>
    ELSE RealOfMinistacks(mss, k - 1)
            \o RealSlcFileList(mss[k].file_list, mss[k].is_compressed)

\* ceil(a / b)
CeilDiv(a, b) == (a + b - 1) \div b

\* C28: the real acquisitions of the ministacks plan returns, taken in
\* ministack order, are the planner's real acquisitions in their order, each
\* once; with R real acquisitions there are ceil(R / ministack_size)
\* ministacks, each but the last with exactly ministack_size real entries.
\* (Stated as claimed; the code breaks the counts for a file list with a
\* compressed entry after a real one.)
C28_RealPartition ==
    pc = "done" =>
        LET R == Len(RealSlcFileList(file_list, is_compressed))
        IN /\ RealOfMinistacks(result, Len(result))
                 = RealSlcFileList(file_list, is_compressed)
           /\ Len(result) = CeilDiv(R, ministack_size)
           /\ \A k \in 1..(Len(result) - 1) :
                 Len(RealSlcFileList(result[k].file_list,
                                     result[k].is_compressed)) = ministack_size


\* ------------------------------------------ properties of a tile's shapes
\* C29: for every tile and every pair of strides, the decimated tile given
\* to compress, the estimate of the kernel and the output window have the
\* same shape, also for tiles whose size or offset is no multiple of the
\* stride.
\* (Stated as claimed; the three shapes are computed by three different
\* roundings.)
C29_ShapesAgree ==
    tile_pc = "saved" =>
        /\ tile_shapes.decimated = tile_shapes.mle
        /\ tile_shapes.mle = tile_shapes.window


\* from_filename unpacks the first three dates of the name: with fewer than
\* three the unpacking raises ValueError
FromFilenameRaises(f) == IF Len(f.name) < 3 THEN "ValueError" ELSE "none"

\* C30: every descriptor c that get_compressed_slc_info produced during plan,
\* with the default date format, round-trips through its file name:
\* from_filename(c.path) has the (reference_date, start_date, end_date)
\* triplet of c and the path of c; and a file name with fewer than three
\* dates is rejected with ValueError.
\* (Stated as claimed; the default format drops the time of day of a
\* datetime, so the parsed triplet is the one at midnight.)
C30_FilenameRoundTrip ==
    /\ compressed_slc_infos # <<>> =>
          \A j \in (NumExisting + 1)..Len(compressed_slc_infos) :
              LET c == compressed_slc_infos[j]
                  back == FromFilename(InfoPath(c))
              IN /\ InfoDates(back) = InfoDates(c)
                 /\ InfoPath(back) = InfoPath(c)
    /\ \A i \in 1..Len(file_list) :
          Len(file_list[i].name) < 3 =>
              FromFilenameRaises(file_list[i]) = "ValueError"

=============================================================================
